---------------------------- MODULE Spec2Model ----------------------------
(***************************************************************************)
(* DAGA (Deniable Anonymous Group Authentication): the client request and  *)
(* its OR proof (dagapython/client.go), the server pipeline                *)
(* (daga/server.go) and the byte encodings the signatures cover            *)
(* (dagapython/daga.go).                                                   *)
(*                                                                         *)
(* The group is modelled by a group of prime order Q written additively on *)
(* discrete logarithms: the point g^a is the number a, the base point is 1 *)
(* and the null point is 0.  A scalar is a number modulo Q.  Go's nil is   *)
(* Nil.  Sequences are 1-based here and 0-based in the Go code: At(s, i)   *)
(* is the Go expression s[i].                                              *)
(***************************************************************************)
EXTENDS Integers, Sequences, FiniteSets, TLC

\* ----------------------------------------------------------------- bounds
MaxClients == 2
MaxServers == 2
MaxZ == 2
MaxSeed == 1

\* ------------------------------------------------------ the suite (group)
\* Order of the group of the suite (a small prime stands for ed25519's order).
Q == 7

Nil == 0 - 1

Scalars == 0 .. (Q - 1)
Points == 0 .. (Q - 1)

At(s, i) == s[i + 1]
InRange(s, i) == i >= 0 /\ i < Len(s)
Last(s) == s[Len(s)]

\* suite.Scalar().Add / Sub / Mul / Inv / Zero / One
ScalarAdd(a, b) == (a + b) % Q
ScalarSub(a, b) == (a + Q - b) % Q
ScalarMul(a, b) == (a * b) % Q
RECURSIVE ScalarPow(_, _)
ScalarPow(a, e) == IF e = 0 THEN 1 ELSE (a * ScalarPow(a, e - 1)) % Q
ScalarInv(a) == ScalarPow(a, Q - 2)

\* suite.Point().Null(), Mul(P, s) (P = nil is the base point), Add, Sub
PointNull == 0
PointBase == 1
PointMul(P, s) == IF P = Nil THEN s % Q ELSE (P * s) % Q
PointAdd(A, B) == (A + B) % Q
PointSub(A, B) == (A + Q - B) % Q

RECURSIVE SumSeq(_)
SumSeq(s) == IF s = <<>> THEN 0 ELSE (Head(s) + SumSeq(Tail(s))) % Q

RECURSIVE ProdSeq(_)
ProdSeq(s) == IF s = <<>> THEN 1 ELSE (Head(s) * ProdSeq(Tail(s))) % Q

\* ------------------------------------------------------------------ hashes
\* sha512 over the marshalled points: the digest is the hashed sequence
\* itself (no collisions); DigestInt is the number its bytes spell.
RECURSIVE DigestInt(_)
DigestInt(d) ==
    IF d = <<>> THEN 0 ELSE Len(d) * (Last(d) + 1) + DigestInt(SubSeq(d, 1, Len(d) - 1))

\* suite.Scalar().SetBytes(hash): the digest's bytes read as a number.
SetBytes(d) == (DigestInt(d) % (Q - 1)) + 1

\* suite.Scalar().Pick(suite.Cipher(hash)): a scalar drawn from the stream
\* the digest seeds.  It is not the number the digest spells: 5x+3 and x
\* differ modulo the even number Q-1 for every x.
PickCipher(d) == ((5 * DigestInt(d) + 3) % (Q - 1)) + 1

\* The scalar a proof's challenge is: picked from the stream seeded by the
\* digest h.  Two such scalars are equal only for equal digests.
HashScalar(d) == [v |-> PickCipher(d), h |-> d]

\* --------------------------------------------------------- byte encodings
\* MarshalBinary of a point, a scalar, a picked scalar; strconv.Itoa
PointBytes(p) == <<<<"P", p>>>>
ScalarBytes(s) == <<<<"S", s>>>>
HashScalarBytes(c) == <<<<"S", c.v>>, <<"H", c.h>>>>
Itoa(i) == <<<<"A", i>>>>

RECURSIVE PointArrayToBytes(_)
PointArrayToBytes(array) ==
    IF array = <<>> THEN <<>>
    ELSE PointBytes(Head(array)) \o PointArrayToBytes(Tail(array))

RECURSIVE ScalarArrayToBytes(_)
ScalarArrayToBytes(array) ==
    IF array = <<>> THEN <<>>
    ELSE ScalarBytes(Head(array)) \o ScalarArrayToBytes(Tail(array))

\* (context *ContextEd25519) ToBytes: X || Y || H || R
ContextToBytes(context) ==
    PointArrayToBytes(context.G.X) \o PointArrayToBytes(context.G.Y)
        \o PointArrayToBytes(context.H) \o PointArrayToBytes(context.R)

\* (proof *ClientProof) ToBytes: cs || t || c || r
ClientProofToBytes(proof) ==
    ScalarBytes(proof.cs) \o PointArrayToBytes(proof.t)
        \o ScalarArrayToBytes(proof.c) \o ScalarArrayToBytes(proof.r)

\* (msg *ClientMessage) ToBytes: context || S || T0 || proof
ClientMessageToBytes(msg) ==
    ContextToBytes(msg.context) \o PointArrayToBytes(msg.S)
        \o PointBytes(msg.T0) \o ClientProofToBytes(msg.proof)

\* -------------------------------------------------------------- signatures
\* sign.Schnorr: a signature names the key that made it and the bytes it covers.
NoSig == [k |-> Nil, m |-> <<>>]
ECDSASign(priv, msg) == [k |-> PointMul(Nil, priv), m |-> msg]
ECDSAVerify(public, msg, sig) ==
    /\ public # Nil
    /\ msg # <<>>
    /\ sig # NoSig
    /\ sig.k = public
    /\ sig.m = msg

\* ------------------------------------------------------- keys and context
\* The long-term keys and per-round secrets the members picked
\* (suite.Scalar().Pick(random.Stream)), one fixed non-zero value per member.
ClientPrivate(i) == (i % (Q - 1)) + 1
ServerPrivate(j) == ((j + 2) % (Q - 1)) + 1
RoundSecret(j) == ((2 * j + 1) % (Q - 1)) + 1

CreateClient(i) == [index |-> i, Private |-> ClientPrivate(i)]
CreateServer(j) == [index |-> j, private |-> ServerPrivate(j), r |-> RoundSecret(j)]

\* (server *Server) GenerateNewRoundSecret: R = g^r
GenerateNewRoundSecret(server) == PointMul(Nil, server.r)

\* GenerateClientGenerator: a point picked from the stream seeded by
\* sha512(index || R...); Nil on a negative index or no commits.
GenerateClientGenerator(index, commits) ==
    IF index < 0 \/ Len(commits) <= 0 THEN Nil
    ELSE (DigestInt(<<index>> \o commits) % (Q - 1)) + 1

\* suite.Point().Pick(data, rand): a point that embeds data, filled up from
\* the stream rand that seed starts.  Different data give different points.
PickData(data, seed) == ((5 * DigestInt(data) + seed) % (Q - 1)) + 1

\* The seed []byte("fixed") of hashBytes.
FixedSeed == 2

\* hashBytes(suite, input, seed): the first Pick embeds the head of the
\* input, less than one marshalled point; every further Pick embeds more
\* of the rest into prem, and suite.Point().Add(p, prem) puts the sum into
\* a new point, so p is returned as the first Pick made it.
hashBytes(input, seed) ==
    IF input = <<>> THEN PickData(<<>>, seed) ELSE PickData(<<Head(input)>>, seed)

\* computeClientGroupGenerator(suite, clientId, serverCommits): the
\* commitments of the map are marshalled in the order the range over the
\* map visits them, order, then the 4 bytes of clientId follow.
computeClientGroupGenerator(clientId, serverCommits, order) ==
    hashBytes([k \in 1 .. Len(order) |-> serverCommits[order[k]]] \o <<clientId>>,
              FixedSeed)

\* generateTestContext(c, s)
generateTestContext(c, s) ==
    LET Y == [j \in 1 .. s |-> PointMul(Nil, ServerPrivate(j - 1))]
        R == [j \in 1 .. s |-> GenerateNewRoundSecret(CreateServer(j - 1))]
        X == [i \in 1 .. c |-> PointMul(Nil, ClientPrivate(i - 1))]
        H == [i \in 1 .. c |-> GenerateClientGenerator(i - 1, R)]
    IN [G |-> [X |-> X, Y |-> Y], R |-> R, H |-> H]

\* -------------------------------------------------------------- the client
\* CreateRequest step 2: the digests of Y_i^z
SharedSecrets(context, z) ==
    [i \in 1 .. Len(context.G.Y) |-> <<PointMul(context.G.Y[i], z)>>]

\* A variant that does not prepend the ephemeral public key Z to S.
RequestFromSecretsNoZ(client, context, z, secrets) ==
    LET n == Len(context.G.Y)
        exp(k) == ProdSeq(SubSeq(secrets, 1, k))
    IN [T0 |-> PointMul(At(context.H, client.index), exp(n)),
        S |-> [i \in 1 .. (n + 1) |-> PointMul(Nil, exp(i - 1))],
        s |-> exp(n)]

\* CreateRequest steps 3-4 for given per-server secrets: T0 = h^(prod), the
\* chain g^1, g^(s_0), g^(s_0 s_1), ... with Z = g^z prepended.
RequestFromSecrets(client, context, z, secrets) ==
    LET n == Len(context.G.Y)
        exp(k) == ProdSeq(SubSeq(secrets, 1, k))
    IN [T0 |-> PointMul(At(context.H, client.index), exp(n)),
        S |-> <<PointMul(Nil, z)>> \o [i \in 1 .. (n + 1) |-> PointMul(Nil, exp(i - 1))],
        s |-> exp(n)]

\* (client *Client) CreateRequest, with the ephemeral key z it picked
CreateRequest(client, context, z) ==
    LET shared == SharedSecrets(context, z)
    IN RequestFromSecrets(client, context, z,
                          [i \in 1 .. Len(shared) |-> SetBytes(shared[i])])

\* A variant that keeps the random w[client.index] instead of zeroing it.
GenerateProofCommitmentsKeepW(client, context, T0, s, vrand, wrand) ==
    LET w == wrand
        v == vrand
        Sm == PointMul(Nil, s)
        tk(k) ==
            LET i == (k - 1) \div 3
            IN CASE (k - 1) % 3 = 0 ->
                      PointAdd(PointMul(At(context.G.X, i), At(w, i)),
                               PointMul(Nil, At(v, 2 * i)))
                 [] (k - 1) % 3 = 1 ->
                      PointAdd(PointMul(Sm, At(w, i)), PointMul(Nil, At(v, 2 * i + 1)))
                 [] OTHER ->
                      PointAdd(PointMul(T0, At(w, i)),
                               PointMul(At(context.H, i), At(v, 2 * i + 1)))
    IN [t |-> [k \in 1 .. (3 * Len(context.H)) |-> tk(k)], v |-> v, w |-> w]

\* (client *Client) GenerateProofCommitments, with the random v and w it
\* picked; w[client.index] is overwritten with zero.
GenerateProofCommitments(client, context, T0, s, vrand, wrand) ==
    LET w == [i \in 1 .. Len(context.H) |-> IF i = client.index + 1 THEN 0 ELSE wrand[i]]
        v == vrand
        Sm == PointMul(Nil, s)
        tk(k) ==
            LET i == (k - 1) \div 3
            IN CASE (k - 1) % 3 = 0 ->
                      PointAdd(PointMul(At(context.G.X, i), At(w, i)),
                               PointMul(Nil, At(v, 2 * i)))
                 [] (k - 1) % 3 = 1 ->
                      PointAdd(PointMul(Sm, At(w, i)), PointMul(Nil, At(v, 2 * i + 1)))
                 [] OTHER ->
                      PointAdd(PointMul(T0, At(w, i)),
                               PointMul(At(context.H, i), At(v, 2 * i + 1)))
    IN [t |-> [k \in 1 .. (3 * Len(context.H)) |-> tk(k)], v |-> v, w |-> w]

\* (client *Client) GenerateProofResponses: every signature of the challenge
\* is verified under the key of the index it names, then c and r are derived.
GenerateProofResponses(client, context, s, challenge, v, w) ==
    LET msg == ScalarBytes(challenge.cs)
        panics == \E k \in 1 .. Len(challenge.Sigs) :
                      ~InRange(context.G.Y, challenge.Sigs[k].index)
        bad == \E k \in 1 .. Len(challenge.Sigs) :
                   ~ECDSAVerify(At(context.G.Y, challenge.Sigs[k].index), msg,
                                challenge.Sigs[k].sig)
        ci == ScalarSub(challenge.cs, SumSeq(w))
        c == [k \in 1 .. Len(w) |-> IF k = client.index + 1 THEN ci ELSE w[k]]
        r == [k \in 1 .. Len(v) |->
                 IF k = 2 * client.index + 1
                 THEN ScalarSub(v[k], ScalarMul(ci, client.Private))
                 ELSE IF k = 2 * client.index + 2
                      THEN ScalarSub(v[k], ScalarMul(ci, s))
                      ELSE v[k]]
    IN IF panics THEN [err |-> "panic", c |-> <<>>, r |-> <<>>]
       ELSE IF bad THEN [err |-> "error", c |-> <<>>, r |-> <<>>]
       ELSE [err |-> "nil", c |-> c, r |-> r]

\* The run-time panics of VerifyClientProof: S empty, or fewer generators
\* than client keys in the embedded context.
VerifyClientProofPanics(msg) ==
    LET n == Len(msg.context.G.X)
    IN /\ Len(msg.proof.c) = n
       /\ Len(msg.proof.r) = 2 * n
       /\ Len(msg.proof.t) = 3 * n
       /\ n > 0
       /\ (Len(msg.S) = 0 \/ Len(msg.context.H) < n)

\* A variant that does not check the commitments on the tag T0.
VerifyClientProofNoTag(msg) ==
    LET n == Len(msg.context.G.X)
    IN /\ Len(msg.proof.c) = n
       /\ Len(msg.proof.r) = 2 * n
       /\ Len(msg.proof.t) = 3 * n
       /\ ~VerifyClientProofPanics(msg)
       /\ \A i \in 0 .. (n - 1) :
            /\ PointAdd(PointMul(At(msg.context.G.X, i), At(msg.proof.c, i)),
                        PointMul(Nil, At(msg.proof.r, 2 * i)))
                 = At(msg.proof.t, 3 * i)
            /\ PointAdd(PointMul(Last(msg.S), At(msg.proof.c, i)),
                        PointMul(Nil, At(msg.proof.r, 2 * i + 1)))
                 = At(msg.proof.t, 3 * i + 1)
       /\ SumSeq(msg.proof.c) = msg.proof.cs

\* VerifyClientProof(msg ClientMessage) bool
VerifyClientProof(msg) ==
    LET n == Len(msg.context.G.X)
    IN /\ Len(msg.proof.c) = n
       /\ Len(msg.proof.r) = 2 * n
       /\ Len(msg.proof.t) = 3 * n
       /\ ~VerifyClientProofPanics(msg)
       /\ \A i \in 0 .. (n - 1) :
            /\ PointAdd(PointMul(At(msg.context.G.X, i), At(msg.proof.c, i)),
                        PointMul(Nil, At(msg.proof.r, 2 * i)))
                 = At(msg.proof.t, 3 * i)
            /\ PointAdd(PointMul(Last(msg.S), At(msg.proof.c, i)),
                        PointMul(Nil, At(msg.proof.r, 2 * i + 1)))
                 = At(msg.proof.t, 3 * i + 1)
            /\ PointAdd(PointMul(msg.T0, At(msg.proof.c, i)),
                        PointMul(At(msg.context.H, i), At(msg.proof.r, 2 * i + 1)))
                 = At(msg.proof.t, 3 * i + 2)
       /\ SumSeq(msg.proof.c) = msg.proof.cs

\* AssembleMessage: the ClientMessage of a request, a challenge and a proof
AssembleMessage(context, S, T0, challenge, t, c, r) ==
    [context |-> context, S |-> S, T0 |-> T0,
     proof |-> [cs |-> challenge.cs, t |-> t, c |-> c, r |-> r]]

\* ValidateClientMessage of package dagapython. msg.S[0] is compared with
\* a newly made generator point by != on the interface values: by the
\* points' values when byValue holds, by their identity otherwise, and a
\* newly made point is identical to no stored one. The length of c is
\* compared with the number of servers.
ValidateClientMessagePython(msg, byValue) ==
    LET i == Len(msg.context.G.X)
        j == Len(msg.context.G.Y)
    IN IF Len(msg.S) # j + 2 THEN FALSE
       ELSE IF ~(byValue /\ At(msg.S, 0) = PointMul(Nil, 1)) THEN FALSE
       ELSE IF msg.T0 = Nil THEN FALSE
       ELSE IF Len(msg.proof.c) # j \/ Len(msg.proof.r) # 2 * i
                 \/ Len(msg.proof.t) # 3 * i \/ msg.proof.cs = Nil THEN FALSE
       ELSE TRUE

\* ValidateClientMessage(&msg.request) of package daga: the shape of a
\* request against the context it embeds.
ValidateClientMessage(msg) ==
    LET i == Len(msg.context.G.X)
        j == Len(msg.context.G.Y)
    IN /\ Len(msg.S) = j + 2
       /\ At(msg.S, 1) = PointBase
       /\ msg.T0 # Nil
       /\ msg.proof.cs # Nil
       /\ Len(msg.proof.c) = i
       /\ Len(msg.proof.r) = 2 * i
       /\ Len(msg.proof.t) = 3 * i

\* -------------------------------------------------------------- the server
\* (proof *serverProof) ToBytes: t1 || t2 || t3 || c || r1 and r2 when present
ServerProofToBytes(proof) ==
    PointBytes(proof.t1) \o PointBytes(proof.t2) \o PointBytes(proof.t3)
        \o HashScalarBytes(proof.c) \o ScalarBytes(proof.r1)
        \o (IF proof.r2 # Nil THEN ScalarBytes(proof.r2) ELSE <<>>)

\* The bytes one hop adds to the signed data: tag || proof || Itoa(index)
HopToBytes(tag, proof, index) ==
    PointBytes(tag) \o ServerProofToBytes(proof) \o Itoa(index)

\* A variant in which the signature of hop h covers the request and hop h only.
TranscriptBytesOwnHop(msg, h) ==
    IF h = 0 THEN ClientMessageToBytes(msg.request)
    ELSE ClientMessageToBytes(msg.request)
             \o HopToBytes(msg.tags[h], msg.proofs[h], msg.indexes[h])

\* The data the signature of hop h (1-based) covers: the request followed
\* by every hop up to and including h.
RECURSIVE TranscriptBytes(_, _)
TranscriptBytes(msg, h) ==
    IF h = 0 THEN ClientMessageToBytes(msg.request)
    ELSE TranscriptBytes(msg, h - 1)
             \o HopToBytes(msg.tags[h], msg.proofs[h], msg.indexes[h])

\* (server *Server) GenerateCommitment with the opening the server picked:
\* the commitment g^opening, signed by the server over the point's bytes.
GenerateCommitment(server, opening) ==
    LET com == PointMul(Nil, opening)
    IN [commit |-> [commit |-> com,
                    sigs |-> [index |-> server.index,
                              sig |-> ECDSASign(server.private, PointBytes(com))]],
        opening |-> opening]

\* VerifyCommitmentSignature, the loop at position i (from 0): the index
\* stored with the commitment is i, context.G.Y[i] needs i in range, and
\* the signature verifies over the commitment.
CheckCommitment(context, commits, i) ==
    LET com == commits[i + 1]
    IN IF i # com.sigs.index THEN "error"
       ELSE IF ~InRange(context.G.Y, i) THEN "panic"
       ELSE IF ~ECDSAVerify(At(context.G.Y, i), PointBytes(com.commit), com.sigs.sig)
       THEN "error"
       ELSE "nil"

\* VerifyCommitmentSignature: the outcome at the first position the loop
\* stops at, nil when it runs through.
VerifyCommitmentSignature(context, commits) ==
    LET bad == {i \in 0 .. (Len(commits) - 1) : CheckCommitment(context, commits, i) # "nil"}
    IN IF bad = {} THEN "nil"
       ELSE CheckCommitment(context, commits, CHOOSE i \in bad : \A i2 \in bad : i <= i2)

\* A variant that compares commitments and openings on their common
\* positions only.
CheckOpeningsCommonPositions(context, commits, openings) ==
    LET both == {i \in 1 .. Len(commits) : i <= Len(openings)}
    IN IF \E i \in both : commits[i].commit # PointMul(Nil, openings[i])
       THEN [err |-> "error", cs |-> Nil]
       ELSE [err |-> "nil", cs |-> SumSeq(openings)]

\* CheckOpenings: the lengths match and every commitment is g^opening;
\* cs is the sum of the openings.
CheckOpenings(context, commits, openings) ==
    IF Len(commits) # Len(openings) THEN [err |-> "error", cs |-> Nil]
    ELSE IF \E i \in 1 .. Len(commits) : commits[i].commit # PointMul(Nil, openings[i])
         THEN [err |-> "error", cs |-> Nil]
         ELSE [err |-> "nil", cs |-> SumSeq(openings)]

\* InitializeChallenge(cs): the challenge with no signature yet
InitializeChallenge(cs) == [cs |-> cs, sigs |-> <<>>]

\* CheckUpdateChallenge, the loop over challenge.sigs at position k: a
\* signer seen before is a duplicate, context.G.Y[sig.index] needs the
\* index in range, then the signature is verified over cs.
CheckChallengeSignature(context, challenge, k) ==
    LET sig == challenge.sigs[k]
    IN IF \E k2 \in 1 .. (k - 1) : challenge.sigs[k2].index = sig.index THEN "error"
       ELSE IF ~InRange(context.G.Y, sig.index) THEN "panic"
       ELSE IF ~ECDSAVerify(At(context.G.Y, sig.index), ScalarBytes(challenge.cs), sig.sig)
       THEN "error"
       ELSE "nil"

\* The first position of challenge.sigs the loop stops at, 0 if none.
FirstRefused(context, challenge) ==
    LET bad == {k \in 1 .. Len(challenge.sigs) :
                   CheckChallengeSignature(context, challenge, k) # "nil"}
    IN IF bad = {} THEN 0 ELSE CHOOSE k \in bad : \A k2 \in bad : k <= k2

\* A variant that signs before it compares the challenge values.
CheckUpdateChallengeSignFirst(server, context, cs, challenge) ==
    LET k == FirstRefused(context, challenge)
        signed == [challenge EXCEPT !.sigs =
                      Append(@, [index |-> server.index,
                                 sig |-> ECDSASign(server.private, ScalarBytes(challenge.cs))])]
    IN IF k # 0
       THEN [err |-> CheckChallengeSignature(context, challenge, k), challenge |-> challenge]
       ELSE IF Len(challenge.sigs) = Len(context.G.Y)
       THEN [err |-> IF cs # challenge.cs THEN "error" ELSE "nil", challenge |-> challenge]
       ELSE [err |-> IF cs # challenge.cs THEN "error" ELSE "nil", challenge |-> signed]

\* A variant that appends the caller's signature after a completed round too.
CheckUpdateChallengeAlwaysAppend(server, context, cs, challenge) ==
    LET k == FirstRefused(context, challenge)
    IN IF k # 0
       THEN [err |-> CheckChallengeSignature(context, challenge, k), challenge |-> challenge]
       ELSE IF cs # challenge.cs THEN [err |-> "error", challenge |-> challenge]
       ELSE [err |-> "nil",
             challenge |-> [challenge EXCEPT !.sigs =
                 Append(@, [index |-> server.index,
                            sig |-> ECDSASign(server.private, ScalarBytes(challenge.cs))])]]

\* (server *Server) CheckUpdateChallenge(context, cs, challenge): the error
\* and the challenge after
CheckUpdateChallenge(server, context, cs, challenge) ==
    LET k == FirstRefused(context, challenge)
    IN IF k # 0
       THEN [err |-> CheckChallengeSignature(context, challenge, k), challenge |-> challenge]
       ELSE IF cs # challenge.cs THEN [err |-> "error", challenge |-> challenge]
       ELSE IF Len(challenge.sigs) = Len(context.G.Y)
       THEN [err |-> "nil", challenge |-> challenge]
       ELSE [err |-> "nil",
             challenge |-> [challenge EXCEPT !.sigs =
                 Append(@, [index |-> server.index,
                            sig |-> ECDSASign(server.private, ScalarBytes(challenge.cs))])]]

\* An absent context (nil).
NoContext == [G |-> [X |-> <<>>, Y |-> <<>>], R |-> <<>>, H |-> <<>>]

\* A challenge that is absent (a nil pointer), and the client-visible
\* challenge that is not returned.
NoChallenge == [absent |-> TRUE]

\* A variant that refuses only a challenge with more than n signatures.
FinalizeChallengeAtMost(context, challenge) ==
    IF context = NoContext \/ challenge = NoChallenge
    THEN [err |-> "error", challenge |-> NoChallenge]
    ELSE IF Len(challenge.sigs) > Len(context.G.Y)
         THEN [err |-> "error", challenge |-> NoChallenge]
         ELSE [err |-> "nil",
               challenge |-> [cs |-> challenge.cs, Sigs |-> challenge.sigs]]

\* FinalizeChallenge: the leader projects the challenge under construction
\* to the challenge sent to the client; it fails on an absent input and
\* when the number of signatures is not the number of servers.
FinalizeChallenge(context, challenge) ==
    IF context = NoContext \/ challenge = NoChallenge
    THEN [err |-> "error", challenge |-> NoChallenge]
    ELSE IF Len(challenge.sigs) # Len(context.G.Y)
         THEN [err |-> "error", challenge |-> NoChallenge]
         ELSE [err |-> "nil",
               challenge |-> [cs |-> challenge.cs, Sigs |-> challenge.sigs]]

\* (server *Server) InitializeServerMessage
InitializeServerMessage(request) ==
    [request |-> request, tags |-> <<>>, proofs |-> <<>>, indexes |-> <<>>, sigs |-> <<>>]

\* The tag before hop position i (0-based): t0 or tags[i-1]
Tprevious(msg, i) == IF i = 0 THEN msg.request.T0 ELSE At(msg.tags, i - 1)

\* (server *Server) generateServerProof, with the v1, v2 it picked
generateServerProof(server, context, s, T, msg, v1, v2) ==
    LET Tprev == Tprevious(msg, Len(msg.tags))
        t1 == PointSub(PointMul(Tprev, v1), PointMul(T, v2))
        t2 == PointMul(Nil, v1)
        t3 == PointMul(At(msg.request.S, server.index + 1), v2)
        c == HashScalar(<<Tprev, T, At(context.R, server.index), PointBase,
                          At(msg.request.S, server.index + 2),
                          At(msg.request.S, server.index + 1), t1, t2, t3>>)
    IN [t1 |-> t1, t2 |-> t2, t3 |-> t3, c |-> c,
        r1 |-> ScalarSub(v1, ScalarMul(c.v, server.r)),
        r2 |-> ScalarSub(v2, ScalarMul(c.v, s))]

\* A variant that leaves the commitment R of the server out of the check.
verifyServerProofNoR(context, i, msg) ==
    /\ i >= 0 /\ i < Len(msg.proofs)
    /\ At(msg.proofs, i).r2 # Nil
    /\ LET proof == At(msg.proofs, i)
           index == At(msg.indexes, i)
           Tprev == Tprevious(msg, i)
           t1 == PointSub(PointMul(Tprev, proof.r1), PointMul(At(msg.tags, i), proof.r2))
           t3 == PointAdd(PointMul(At(msg.request.S, index + 1), proof.r2),
                          PointMul(At(msg.request.S, index + 2), proof.c.v))
       IN /\ proof.c.h[1] = Tprev
          /\ proof.c.h[2] = At(msg.tags, i)
          /\ proof.c.h[5] = At(msg.request.S, index + 2)
          /\ proof.c.h[6] = At(msg.request.S, index + 1)
          /\ proof.c.h[7] = t1
          /\ proof.c.h[9] = t3
          /\ proof.c.v = PickCipher(proof.c.h)

\* verifyServerProof(context, i, msg): the proof at position i, for the
\* server indexes[i]
verifyServerProof(context, i, msg) ==
    /\ i >= 0 /\ i < Len(msg.proofs)
    /\ At(msg.proofs, i).r2 # Nil
    /\ LET proof == At(msg.proofs, i)
           index == At(msg.indexes, i)
           Tprev == Tprevious(msg, i)
           t1 == PointSub(PointMul(Tprev, proof.r1), PointMul(At(msg.tags, i), proof.r2))
           t2 == PointAdd(PointMul(Nil, proof.r1), PointMul(At(context.R, index), proof.c.v))
           t3 == PointAdd(PointMul(At(msg.request.S, index + 1), proof.r2),
                          PointMul(At(msg.request.S, index + 2), proof.c.v))
           c == HashScalar(<<Tprev, At(msg.tags, i), At(context.R, index), PointBase,
                             At(msg.request.S, index + 2),
                             At(msg.request.S, index + 1), t1, t2, t3>>)
       IN c = proof.c

\* VerifyServerProof(context, i, msg) of package dagapython: t2 with the
\* commitment of the server indexes[i], t3 and the hash with the entries of
\* the position i.
VerifyServerProof(context, i, msg) ==
    /\ i < Len(msg.proofs)
    /\ At(msg.proofs, i).r2 # Nil
    /\ LET proof == At(msg.proofs, i)
           Tprev == Tprevious(msg, i)
           t1 == PointSub(PointMul(Tprev, proof.r1), PointMul(At(msg.tags, i), proof.r2))
           t2 == PointAdd(PointMul(Nil, proof.r1),
                          PointMul(At(context.R, At(msg.indexes, i)), proof.c.v))
           t3 == PointAdd(PointMul(At(msg.request.S, i + 1), proof.r2),
                          PointMul(At(msg.request.S, i + 2), proof.c.v))
           c == HashScalar(<<Tprev, At(msg.tags, i), At(context.R, i), PointBase,
                             At(msg.request.S, i + 2),
                             At(msg.request.S, i + 1), t1, t2, t3>>)
       IN c = proof.c

\* (server *Server) generateMisbehavingProof, with the v it picked
generateMisbehavingProof(server, context, Z, v) ==
    LET Zs == PointMul(Z, server.private)
        t1 == PointMul(Z, v)
        t2 == PointMul(Nil, v)
        c == HashScalar(<<Zs, Z, At(context.G.Y, server.index), PointBase, t1, t2>>)
    IN [t1 |-> t1, t2 |-> t2, t3 |-> Zs, c |-> c,
        r1 |-> ScalarSub(v, ScalarMul(c.v, server.private)),
        r2 |-> Nil]

\* verifyMisbehavingProof(context, i, proof, Z): against the key Y[i]
verifyMisbehavingProof(context, i, proof, Z) ==
    /\ Z # Nil
    /\ i >= 0 /\ i < Len(context.G.Y)
    /\ proof.r2 = Nil
    /\ LET t1 == PointAdd(PointMul(Z, proof.r1), PointMul(proof.t3, proof.c.v))
           t2 == PointAdd(PointMul(Nil, proof.r1), PointMul(At(context.G.Y, i), proof.c.v))
           c == HashScalar(<<proof.t3, Z, At(context.G.Y, i), PointBase, t1, t2>>)
       IN c = proof.c

\* ServerProtocol, "Check all the proofs": a proof without r2 is checked as
\* a misbehaving proof for the position i it is stored at.
CheckAllProofs(context, msg) ==
    \A i \in 0 .. (Len(msg.proofs) - 1) :
        IF At(msg.proofs, i).r2 = Nil
        THEN verifyMisbehavingProof(context, i, At(msg.proofs, i), At(msg.request.S, 0))
        ELSE verifyServerProof(context, i, msg)

\* A variant that verifies the signature of the last hop only.
CheckSignaturesLastOnly(context, msg) ==
    \A h \in {Len(msg.indexes)} \ {0} :
        ECDSAVerify(At(context.G.Y, msg.sigs[h].index), TranscriptBytes(msg, h),
                    msg.sigs[h].sig)

\* A variant that checks who signed each hop but not what was signed.
CheckSignaturesKeyOnly(context, msg) ==
    \A h \in 1 .. Len(msg.indexes) :
        msg.sigs[h].sig.k = At(context.G.Y, msg.sigs[h].index)

\* ServerProtocol: every signature of the message under the key its
\* sigs[i].index names, over the data up to hop i.
CheckSignatures(context, msg) ==
    \A h \in 1 .. Len(msg.indexes) :
        ECDSAVerify(At(context.G.Y, msg.sigs[h].index), TranscriptBytes(msg, h),
                    msg.sigs[h].sig)

\* ServerProtocol step 2: the secret the server shares with the client
ServerSecret(server, msg) == PickCipher(<<PointMul(At(msg.request.S, 0), server.private)>>)

\* ServerProtocol step 2: the client misbehaved for this server
Misbehaving(server, msg) ==
    At(msg.request.S, server.index + 2)
        # PointMul(At(msg.request.S, server.index + 1), ServerSecret(server, msg))

\* A variant that names the hop's position, not the server, as the signer.
AppendHopSignerByPosition(server, context, msg, nonce) ==
    LET s == ServerSecret(server, msg)
        exp == ScalarMul(server.r, ScalarInv(s))
        T == IF Misbehaving(server, msg) THEN PointNull
             ELSE PointMul(Tprevious(msg, Len(msg.tags)), exp)
        proof == IF Misbehaving(server, msg)
                 THEN generateMisbehavingProof(server, context, At(msg.request.S, 0), nonce.v1)
                 ELSE generateServerProof(server, context, s, T, msg, nonce.v1, nonce.v2)
        unsigned == [msg EXCEPT !.tags = Append(@, T),
                                !.proofs = Append(@, proof),
                                !.indexes = Append(@, server.index),
                                !.sigs = Append(@, [sig |-> NoSig, index |-> Len(msg.sigs)])]
        sign == ECDSASign(server.private, TranscriptBytes(unsigned, Len(unsigned.tags)))
    IN [unsigned EXCEPT !.sigs[Len(unsigned.sigs)].sig = sign]

\* ServerProtocol steps 2-4 once the message is verified: the new tag, its
\* proof and the signature over the extended data.
AppendHop(server, context, msg, nonce) ==
    LET s == ServerSecret(server, msg)
        exp == ScalarMul(server.r, ScalarInv(s))
        T == IF Misbehaving(server, msg) THEN PointNull
             ELSE PointMul(Tprevious(msg, Len(msg.tags)), exp)
        proof == IF Misbehaving(server, msg)
                 THEN generateMisbehavingProof(server, context, At(msg.request.S, 0), nonce.v1)
                 ELSE generateServerProof(server, context, s, T, msg, nonce.v1, nonce.v2)
        unsigned == [msg EXCEPT !.tags = Append(@, T),
                                !.proofs = Append(@, proof),
                                !.indexes = Append(@, server.index),
                                !.sigs = Append(@, [sig |-> NoSig, index |-> server.index])]
        sign == ECDSASign(server.private, TranscriptBytes(unsigned, Len(unsigned.tags)))
    IN [unsigned EXCEPT !.sigs[Len(unsigned.sigs)].sig = sign]

\* The hop a server signs when it departs from step 2 of ServerProtocol:
\* a misbehaviour proof next to the tag of an honest hop ("tag"), or the
\* identity tag and a misbehaviour proof for a request whose chain it
\* found consistent ("frame").
RogueAppend(server, context, msg, nonce, how) ==
    LET s == ServerSecret(server, msg)
        exp == ScalarMul(server.r, ScalarInv(s))
        T == IF how = "frame" THEN PointNull
             ELSE PointMul(Tprevious(msg, Len(msg.tags)), exp)
        proof == generateMisbehavingProof(server, context, At(msg.request.S, 0), nonce.v1)
        unsigned == [msg EXCEPT !.tags = Append(@, T),
                                !.proofs = Append(@, proof),
                                !.indexes = Append(@, server.index),
                                !.sigs = Append(@, [sig |-> NoSig, index |-> server.index])]
        sign == ECDSASign(server.private, TranscriptBytes(unsigned, Len(unsigned.tags)))
    IN [unsigned EXCEPT !.sigs[Len(unsigned.sigs)].sig = sign]

\* ServerProtocol, the signature loop: context.G.Y[msg.sigs[i].index] is
\* evaluated for a signer index outside the roster, the signatures before
\* it having verified.
CheckSignaturesPanics(context, msg) ==
    \E h \in 1 .. Len(msg.indexes) :
        /\ ~InRange(context.G.Y, msg.sigs[h].index)
        /\ \A h2 \in 1 .. (h - 1) :
               ECDSAVerify(At(context.G.Y, msg.sigs[h2].index), TranscriptBytes(msg, h2),
                           msg.sigs[h2].sig)

\* A variant that looks at the commitment chain first and answers a broken
\* chain with the identity tag before the client proof and the hop proofs
\* are checked.
ServerProtocolChainFirst(server, context, msg, nonce) ==
    IF ~ValidateClientMessage(msg.request) THEN [err |-> "error", msg |-> msg]
    ELSE IF Len(msg.indexes) # Len(msg.proofs) \/ Len(msg.proofs) # Len(msg.tags)
              \/ Len(msg.tags) # Len(msg.sigs) THEN [err |-> "error", msg |-> msg]
    ELSE IF Len(msg.indexes) >= Len(context.G.Y) THEN [err |-> "error", msg |-> msg]
    ELSE IF CheckSignaturesPanics(context, msg) THEN [err |-> "panic", msg |-> msg]
    ELSE IF ~CheckSignatures(context, msg) THEN [err |-> "error", msg |-> msg]
    ELSE IF ~InRange(msg.request.S, server.index + 2) THEN [err |-> "panic", msg |-> msg]
    ELSE IF Misbehaving(server, msg)
         THEN [err |-> "nil", msg |-> AppendHop(server, context, msg, nonce)]
    ELSE IF VerifyClientProofPanics(msg.request) THEN [err |-> "panic", msg |-> msg]
    ELSE IF ~VerifyClientProof(msg.request) THEN [err |-> "error", msg |-> msg]
    ELSE IF ~CheckAllProofs(context, msg) THEN [err |-> "error", msg |-> msg]
    ELSE [err |-> "nil", msg |-> AppendHop(server, context, msg, nonce)]

\* A variant that refuses a message only when it holds more than n hops.
ServerProtocolOneMore(server, context, msg, nonce) ==
    IF ~ValidateClientMessage(msg.request) THEN [err |-> "error", msg |-> msg]
    ELSE IF Len(msg.indexes) # Len(msg.proofs) \/ Len(msg.proofs) # Len(msg.tags)
              \/ Len(msg.tags) # Len(msg.sigs) THEN [err |-> "error", msg |-> msg]
    ELSE IF Len(msg.indexes) > Len(context.G.Y) THEN [err |-> "error", msg |-> msg]
    ELSE IF CheckSignaturesPanics(context, msg) THEN [err |-> "panic", msg |-> msg]
    ELSE IF ~CheckSignatures(context, msg) THEN [err |-> "error", msg |-> msg]
    ELSE IF VerifyClientProofPanics(msg.request) THEN [err |-> "panic", msg |-> msg]
    ELSE IF ~VerifyClientProof(msg.request) THEN [err |-> "error", msg |-> msg]
    ELSE IF ~CheckAllProofs(context, msg) THEN [err |-> "error", msg |-> msg]
    ELSE IF ~InRange(msg.request.S, server.index + 2) THEN [err |-> "panic", msg |-> msg]
    ELSE [err |-> "nil", msg |-> AppendHop(server, context, msg, nonce)]

\* A variant that forms the new message before the count of the hops is
\* looked at.
ServerProtocolAppendEarly(server, context, msg, nonce) ==
    IF ~ValidateClientMessage(msg.request) THEN [err |-> "error", msg |-> msg]
    ELSE IF Len(msg.indexes) # Len(msg.proofs) \/ Len(msg.proofs) # Len(msg.tags)
              \/ Len(msg.tags) # Len(msg.sigs) THEN [err |-> "error", msg |-> msg]
    ELSE IF ~InRange(msg.request.S, server.index + 2) THEN [err |-> "panic", msg |-> msg]
    ELSE IF Len(msg.indexes) >= Len(context.G.Y)
         THEN [err |-> "error", msg |-> AppendHop(server, context, msg, nonce)]
    ELSE IF CheckSignaturesPanics(context, msg) THEN [err |-> "panic", msg |-> msg]
    ELSE IF ~CheckSignatures(context, msg) THEN [err |-> "error", msg |-> msg]
    ELSE IF VerifyClientProofPanics(msg.request) THEN [err |-> "panic", msg |-> msg]
    ELSE IF ~VerifyClientProof(msg.request) THEN [err |-> "error", msg |-> msg]
    ELSE IF ~CheckAllProofs(context, msg) THEN [err |-> "error", msg |-> msg]
    ELSE [err |-> "nil", msg |-> AppendHop(server, context, msg, nonce)]

\* (server *Server) ServerProtocol(context, msg): the error and the message after
ServerProtocol(server, context, msg, nonce) ==
    IF ~ValidateClientMessage(msg.request) THEN [err |-> "error", msg |-> msg]
    ELSE IF Len(msg.indexes) # Len(msg.proofs) \/ Len(msg.proofs) # Len(msg.tags)
              \/ Len(msg.tags) # Len(msg.sigs) THEN [err |-> "error", msg |-> msg]
    ELSE IF Len(msg.indexes) >= Len(context.G.Y) THEN [err |-> "error", msg |-> msg]
    ELSE IF CheckSignaturesPanics(context, msg) THEN [err |-> "panic", msg |-> msg]
    ELSE IF ~CheckSignatures(context, msg) THEN [err |-> "error", msg |-> msg]
    ELSE IF VerifyClientProofPanics(msg.request) THEN [err |-> "panic", msg |-> msg]
    ELSE IF ~VerifyClientProof(msg.request) THEN [err |-> "error", msg |-> msg]
    ELSE IF ~CheckAllProofs(context, msg) THEN [err |-> "error", msg |-> msg]
    ELSE IF ~InRange(msg.request.S, server.index + 2) THEN [err |-> "panic", msg |-> msg]
    ELSE [err |-> "nil", msg |-> AppendHop(server, context, msg, nonce)]

\* An absent request and server message (nil).
NoRequest ==
    [context |-> NoContext, S |-> <<>>, T0 |-> Nil,
     proof |-> [cs |-> Nil, t |-> <<>>, c |-> <<>>, r |-> <<>>]]
NoMsg == InitializeServerMessage(NoRequest)

\* (client *Client) GetFinalLinkageTag(context, msg): context and message
\* present, all n hops present, every signature and every proof verified,
\* then the last tag.
GetFinalLinkageTag(context, msg) ==
    LET ok == /\ context # NoContext
              /\ msg # NoMsg
              /\ ValidateClientMessage(msg.request)
              /\ Len(msg.indexes) = Len(context.G.Y)
              /\ Len(msg.proofs) = Len(msg.indexes)
              /\ Len(msg.tags) = Len(msg.indexes)
              /\ Len(msg.sigs) = Len(msg.indexes)
              /\ CheckSignatures(context, msg)
              /\ \A i \in 0 .. (Len(msg.proofs) - 1) :
                     IF At(msg.proofs, i).r2 = Nil
                     THEN verifyMisbehavingProof(context, At(msg.indexes, i),
                                                 At(msg.proofs, i), At(msg.request.S, 0))
                     ELSE verifyServerProof(context, i, msg)
    IN IF ok THEN [err |-> "nil", Tf |-> Last(msg.tags)]
       ELSE [err |-> "error", Tf |-> Nil]

\* ------------------------------------------------------- the flow's inputs
\* The challenge the client receives: cs signed by every server of the context
SignedChallenge(context, cs) ==
    [cs |-> cs,
     Sigs |-> [j \in 1 .. Len(context.G.Y) |->
                  [index |-> j - 1,
                   sig |-> ECDSASign(ServerPrivate(j - 1), ScalarBytes(cs))]]]

\* The random v (two per clause) and w (one per clause) of a proof
Vrand(seed, len) == [k \in 1 .. len |-> (seed + 2 * k) % Q]
Wrand(seed, len) == [k \in 1 .. len |-> (3 * seed + k) % Q]

\* The random v1, v2 (or v) of a server proof
ServerNonce(a) == [v1 |-> (a + 1) % Q, v2 |-> (2 * a + 3) % Q]

\* The per-server secrets of a request: for each server either the scalar
\* CreateRequest derives ("SetBytes") or the one the server derives ("Pick").
Derivations(n) == [1 .. n -> {"SetBytes", "Pick"}]
Secrets(context, z, derive) ==
    LET shared == SharedSecrets(context, z)
    IN [j \in 1 .. Len(shared) |->
           IF derive[j] = "SetBytes" THEN SetBytes(shared[j]) ELSE PickCipher(shared[j])]

\* A private key that belongs to no member of the context
OutsiderPrivate == Q - 1

\* The client's side of the flow: request, commitments, responses to the
\* signed challenge, assembled message.  skew shifts T0 off h^s.
ClientRequest(client, embedded, context, z, cs, derive, skew) ==
    LET req == IF \A j \in DOMAIN derive : derive[j] = "SetBytes"
               THEN CreateRequest(client, embedded, z)
               ELSE RequestFromSecrets(client, embedded, z, Secrets(embedded, z, derive))
        T0 == IF skew THEN PointAdd(req.T0, At(embedded.H, client.index)) ELSE req.T0
        com == GenerateProofCommitments(client, embedded, T0, req.s,
                                        Vrand(z, 2 * Len(embedded.H)),
                                        Wrand(z, Len(embedded.H)))
        challenge == SignedChallenge(context, cs)
        res == GenerateProofResponses(client, embedded, req.s, challenge, com.v, com.w)
    IN [err |-> res.err,
        request |-> AssembleMessage(embedded, req.S, T0, challenge, com.t, res.c, res.r)]

\* ------------------------------------------------------------------- state
VARIABLES
    context,    \* the context the servers hold
    msg,        \* the ServerMessage in flight
    err,        \* what the last ServerProtocol / GetFinalLinkageTag call returned
    Tf,         \* the final linkage tag the client extracted
    phase,      \* "idle", "pipeline", "final"
    aux,        \* history of the run: who asked, how, which servers were called
    fork,       \* a copy of the message processed by a concurrent server
    first,      \* the first accepted authentication of this context
    cl,         \* a prover and the verifier of the client proof
    round,      \* the servers' round secrets, and the one each hop was made with
    ch,         \* the challenge under construction and the calls made on it
    setup       \* the relay's and the trustees' setup, and the generators computed

vars == <<context, msg, err, Tf, phase, aux, fork, first, cl, round, ch, setup>>

NoAux ==
    [client |-> Nil, z |-> 0, cs |-> 0, derive |-> <<>>, kind |-> "none",
     calls |-> <<>>, altered |-> "no", changed |-> FALSE, len |-> 0]
NoCh == [stage |-> "none"]
NoSetup == [stage |-> "none", gens |-> <<>>]
NoFinal == [err |-> "none"]
NoResp == [err |-> "none", how |-> "none"]
NoFirst == [client |-> Nil, tag |-> Nil, z |-> 0, cs |-> 0, start |-> Nil]
NoCl == [stage |-> "start"]

Init ==
    /\ \E m \in 1 .. MaxClients, n \in 1 .. MaxServers :
           context = generateTestContext(m, n)
    /\ msg = NoMsg
    /\ err = "none"
    /\ Tf = Nil
    /\ phase = "idle"
    /\ aux = NoAux
    /\ fork = NoMsg
    /\ first = NoFirst
    /\ cl = NoCl
    /\ round = [r |-> [j \in 1 .. Len(context.G.Y) |-> RoundSecret(j - 1)], used |-> <<>>]
    /\ ch = NoCh
    /\ setup = NoSetup

NumClients == Len(context.G.X)
NumServers == Len(context.G.Y)

\* ---------------------------------------------------------------- pipeline
\* A client (member i, an outsider posing as i in a context of its own, or
\* member i with a skewed T0) sends its request to the servers.
NewRequest(i, z, cs, derive, kind) ==
    /\ phase = "idle"
    /\ cl = NoCl
    /\ LET client == IF kind = "outsider"
                     THEN [index |-> i, Private |-> OutsiderPrivate]
                     ELSE CreateClient(i)
           embedded == IF kind = "outsider"
                       THEN [context EXCEPT !.G.X[i + 1] = PointMul(Nil, OutsiderPrivate)]
                       ELSE context
           built == ClientRequest(client, embedded, context, z, cs, derive, kind = "skew")
       IN /\ built.err = "nil"
          /\ At(built.request.proof.c, i) # 0
          /\ msg' = InitializeServerMessage(built.request)
    /\ aux' = [NoAux EXCEPT !.client = i, !.z = z, !.cs = cs, !.derive = derive,
                            !.kind = kind]
    /\ phase' = "pipeline"
    /\ err' = "none"
    /\ Tf' = Nil
    /\ UNCHANGED <<context, fork, first, cl, round, ch, setup>>

\* Server j runs ServerProtocol on the message in flight.
ServerStep(j, a) ==
    /\ phase = "pipeline"
    /\ err \in {"none", "nil"}
    /\ Len(aux.calls) <= NumServers
    /\ LET res == ServerProtocol(CreateServer(j), context, msg, ServerNonce(a))
       IN /\ msg' = res.msg
          /\ err' = res.err
    /\ aux' = [aux EXCEPT !.calls = Append(@, j)]
    /\ UNCHANGED <<context, Tf, phase, fork, first, cl, round, ch, setup>>

\* The client extracts the final linkage tag.
Finalize ==
    /\ phase = "pipeline"
    /\ err \in {"none", "nil"}
    /\ LET res == GetFinalLinkageTag(context, msg)
       IN /\ Tf' = res.Tf
          /\ err' = res.err
    /\ phase' = "final"
    /\ UNCHANGED <<context, msg, aux, fork, first, cl, round, ch, setup>>

\* Every server was called exactly once.
EachServerOnce(calls) ==
    /\ Len(calls) = NumServers
    /\ \A j \in 0 .. (NumServers - 1) : \E k \in 1 .. Len(calls) : calls[k] = j

\* The run in flight ended in an accepted authentication.
Accepted ==
    /\ phase = "final"
    /\ err = "nil"
    /\ Tf # PointNull
    /\ aux.altered = "no"
    /\ EachServerOnce(aux.calls)

\* The service records the first accepted authentication of the context.
Remember ==
    /\ Accepted
    /\ first = NoFirst
    /\ first' = [client |-> aux.client, tag |-> Tf, z |-> aux.z, cs |-> aux.cs,
                 start |-> aux.calls[1]]
    /\ UNCHANGED <<context, msg, err, Tf, phase, aux, fork, cl, round, ch, setup>>

\* The run is over; the next request may come.
Reset ==
    /\ phase \in {"pipeline", "final"}
    /\ msg' = NoMsg
    /\ err' = "none"
    /\ Tf' = Nil
    /\ phase' = "idle"
    /\ aux' = NoAux
    /\ fork' = NoMsg
    /\ UNCHANGED <<context, first, cl, round, ch, setup>>

RequestKinds == {"member", "outsider", "skew"}

SomeRequest ==
    \E i \in 0 .. (NumClients - 1), z \in 1 .. MaxZ, cs \in 1 .. MaxZ,
       derive \in Derivations(NumServers), kind \in RequestKinds :
        NewRequest(i, z, cs, derive, kind)

SomeServerStep ==
    \E j \in 0 .. (NumServers - 1), a \in 0 .. MaxSeed : ServerStep(j, a)

Next ==
    \/ SomeRequest
    \/ SomeServerStep
    \/ Finalize
    \/ Remember
    \/ Reset

Spec == Init /\ [][Next]_vars

\* ------------------------------------------------------ claims on the flow
\* The request in flight was produced by CreateRequest by a member.
HonestRun ==
    /\ phase # "idle"
    /\ aux.kind = "member"
    /\ aux.altered = "no"
    /\ \A j \in DOMAIN aux.derive : aux.derive[j] = "SetBytes"

\* The servers were called in pipeline order from some start server, each
\* at most once.
PipelineOrder(calls) ==
    /\ Len(calls) <= NumServers
    /\ \E start \in 0 .. (NumServers - 1) :
           \A k \in 1 .. Len(calls) : calls[k] = (start + k - 1) % NumServers

\* C1: the full flow of an honest client, whatever the context, the client
\* and the server that starts the pipeline, meets no error at any server and
\* ends with a final tag that is not the identity.
C1_FullFlowCompletes ==
    (HonestRun /\ PipelineOrder(aux.calls)) =>
        /\ phase = "pipeline" => err \in {"none", "nil"}
        /\ (phase = "final" /\ Len(aux.calls) = NumServers) =>
               (err = "nil" /\ Tf # PointNull)

InconsistentAt == {j \in 0 .. (NumServers - 1) : aux.derive[j + 1] = "SetBytes"}

\* C3: a request with a verifying proof and an inconsistent chain at some
\* server j is processed by every server without error, every tag from j's
\* hop on is the identity, and the client extracts the identity, no error.
C3_MisbehaviourCompletes ==
    (phase # "idle" /\ aux.kind = "member" /\ aux.altered = "no"
       /\ InconsistentAt # {} /\ PipelineOrder(aux.calls)) =>
        /\ phase = "pipeline" => err \in {"none", "nil"}
        /\ \A h \in 1 .. Len(msg.tags) :
               (\E g \in 1 .. h : msg.indexes[g] \in InconsistentAt)
                   => msg.tags[h] = PointNull
        /\ (phase = "final" /\ Len(aux.calls) = NumServers) =>
               (err = "nil" /\ Tf = PointNull)

\* C4: a message carries a hop only if the client proof of its request
\* verifies against X and H of the servers' context, and the request embeds
\* that X and H.
C4_ServedOnlyForOwnContext ==
    (phase # "idle" /\ aux.altered = "no" /\ Len(msg.sigs) > 0) =>
        /\ VerifyClientProof([msg.request EXCEPT !.context = context])
        /\ msg.request.context.G.X = context.G.X
        /\ msg.request.context.H = context.H

\* C7: for a request produced by CreateRequest the chain check holds at
\* every server, and no hop carries a misbehaving proof.
C7_HonestNeverMisbehaving ==
    HonestRun =>
        /\ \A j \in 0 .. (NumServers - 1) : ~Misbehaving(CreateServer(j), msg)
        /\ \A h \in 1 .. Len(msg.proofs) : msg.proofs[h].r2 # Nil

\* ------------------------------------------- the client proof on its own
\* Member i builds a request.
ClRequest(i, z) ==
    /\ phase = "idle"
    /\ cl.stage = "start"
    /\ cl' = [stage |-> "request", index |-> i, z |-> z,
              req |-> CreateRequest(CreateClient(i), context, z)]
    /\ UNCHANGED <<context, msg, err, Tf, phase, aux, fork, first, round, ch, setup>>

\* A prover holding the private scalar x and the witness s commits to the
\* proof of clause cl.index for that request.
ClCommit(x, s, seed) ==
    /\ cl.stage = "request"
    /\ LET prover == [index |-> cl.index, Private |-> x]
           com == GenerateProofCommitments(prover, context, cl.req.T0, s,
                                           Vrand(seed, 2 * Len(context.H)),
                                           Wrand(seed, Len(context.H)))
       IN cl' = [stage |-> "committed", index |-> cl.index, z |-> cl.z, req |-> cl.req,
                 x |-> x, s |-> s, t |-> com.t, v |-> com.v, w |-> com.w]
    /\ UNCHANGED <<context, msg, err, Tf, phase, aux, fork, first, round, ch, setup>>

\* The prover answers the challenge cs and the message is assembled.
ClRespond(cs) ==
    /\ cl.stage = "committed"
    /\ LET prover == [index |-> cl.index, Private |-> cl.x]
           challenge == SignedChallenge(context, cs)
           res == GenerateProofResponses(prover, context, cl.s, challenge, cl.v, cl.w)
       IN /\ res.err = "nil"
          /\ cl' = [stage |-> "assembled", index |-> cl.index, z |-> cl.z, req |-> cl.req,
                    x |-> cl.x, s |-> cl.s, cs |-> cs, malformed |-> "no",
                    msg |-> AssembleMessage(context, cl.req.S, cl.req.T0, challenge,
                                            cl.t, res.c, res.r)]
    /\ UNCHANGED <<context, msg, err, Tf, phase, aux, fork, first, round, ch, setup>>

\* One part of the assembled message is put out of shape, the rest is left
\* as produced.
Malformed(m, how) ==
    CASE how = "S1" -> [m EXCEPT !.S[2] = PointAdd(@, PointBase)]
      [] how = "Slong" -> [m EXCEPT !.S = <<Head(@)>> \o @]
      [] how = "Sshort" -> [m EXCEPT !.S = <<Head(@)>> \o Tail(Tail(@))]
      [] how = "T0nil" -> [m EXCEPT !.T0 = Nil]
      [] how = "tlong" -> [m EXCEPT !.proof.t = Append(@, PointBase)]
      [] how = "clong" -> [m EXCEPT !.proof.c = Append(@, 0)]
      [] how = "rlong" -> [m EXCEPT !.proof.r = Append(@, 0)]
      [] how = "cs" -> [m EXCEPT !.proof.cs = ScalarAdd(@, 1)]

Malformations == {"S1", "Slong", "Sshort", "T0nil", "tlong", "clong", "rlong", "cs"}

ClMalform(how) ==
    /\ cl.stage = "assembled"
    /\ cl.malformed = "no"
    /\ cl' = [cl EXCEPT !.malformed = how, !.msg = Malformed(@, how)]
    /\ UNCHANGED <<context, msg, err, Tf, phase, aux, fork, first, round, ch, setup>>

\* The verifier runs VerifyClientProof on the message.
ClVerify ==
    /\ cl.stage = "assembled"
    /\ ~VerifyClientProofPanics(cl.msg)
    /\ cl' = [cl EXCEPT !.stage = "verified"] @@ [ok |-> VerifyClientProof(cl.msg)]
    /\ UNCHANGED <<context, msg, err, Tf, phase, aux, fork, first, round, ch, setup>>

ClReset ==
    /\ cl.stage # "start"
    /\ cl' = NoCl
    /\ UNCHANGED <<context, msg, err, Tf, phase, aux, fork, first, round, ch, setup>>

ClSomeRequest ==
    \E i \in 0 .. (NumClients - 1), z \in 1 .. MaxZ : ClRequest(i, z)

\* The prover is the member or holds another key, and uses the witness of
\* the request or another scalar.
ClSomeCommit ==
    \E dx \in {0, 1}, ds \in {0, 1}, seed \in 0 .. MaxSeed :
        ClCommit(ScalarAdd(ClientPrivate(cl.index), dx), ScalarAdd(cl.req.s, ds), seed)

ClSomeRespond == \E cs \in Scalars : ClRespond(cs)

ClSomeMalform == \E how \in Malformations : ClMalform(how)

ClientNext ==
    \/ ClSomeRequest
    \/ ClSomeCommit
    \/ ClSomeRespond
    \/ ClSomeMalform
    \/ ClVerify
    \/ ClReset

ClientSpec == Init /\ [][ClientNext]_vars

\* The message assembled by the prover reached the verifier as produced.
ClProduced == cl.stage \in {"assembled", "verified"} /\ cl.malformed = "no"

\* The prover is member cl.index and uses the witness of its request.
ClHonest ==
    /\ ClProduced
    /\ cl.x = ClientPrivate(cl.index)
    /\ cl.s = cl.req.s

\* C5: a proof built by GenerateProofCommitments and GenerateProofResponses
\* for clause i with (x, s), whose c_i is not zero, is accepted exactly when
\* x is the private key of X_i, S[n+1] = g^s and T0 = h_i^s.
C5_ProofAcceptedIffMember ==
    (ClProduced /\ cl.stage = "verified" /\ At(cl.msg.proof.c, cl.index) # 0) =>
        (cl.ok <=> /\ PointMul(Nil, cl.x) = At(context.G.X, cl.index)
                   /\ Last(cl.msg.S) = PointMul(Nil, cl.s)
                   /\ cl.msg.T0 = PointMul(At(context.H, cl.index), cl.s))

C5_Witness ==
    /\ ClHonest
    /\ cl.stage = "verified"
    /\ At(cl.msg.proof.c, cl.index) # 0
    /\ cl.ok
    /\ NumClients > 1
    /\ cl.index > 0

\* C6: VerifyClientProof accepts only a message with |S| = n+2, S[1] = g,
\* T0 present, |t| = 3m, |c| = m, |r| = 2m and the c_k summing to cs.
C6_AcceptedOnlyWellShaped ==
    (cl.stage = "verified" /\ cl.ok) =>
        /\ Len(cl.msg.S) = NumServers + 2
        /\ At(cl.msg.S, 1) = PointBase
        /\ cl.msg.T0 # Nil
        /\ Len(cl.msg.proof.t) = 3 * NumClients
        /\ Len(cl.msg.proof.c) = NumClients
        /\ Len(cl.msg.proof.r) = 2 * NumClients
        /\ SumSeq(cl.msg.proof.c) = cl.msg.proof.cs

\* C8: the request of an honest client has |S| = n+2, S[0] = g^z, S[1] = g,
\* |t| = 3m, |c| = m, |r| = 2m and the c_k sum to the challenge cs.
C8_HonestRequestShape ==
    ClHonest =>
        /\ Len(cl.msg.S) = NumServers + 2
        /\ At(cl.msg.S, 0) = PointMul(Nil, cl.z)
        /\ At(cl.msg.S, 1) = PointBase
        /\ Len(cl.msg.proof.t) = 3 * NumClients
        /\ Len(cl.msg.proof.c) = NumClients
        /\ Len(cl.msg.proof.r) = 2 * NumClients
        /\ SumSeq(cl.msg.proof.c) = cl.cs
        /\ cl.msg.proof.cs = cl.cs

C8_Witness ==
    /\ ClHonest
    /\ NumClients > 1
    /\ NumServers > 1
    /\ cl.index > 0
    /\ cl.cs # 0

\* ------------------------------------------------- a transcript is altered
Shift(p) == (p + 1) % Q

\* The request with one field changed: one element of a sequence field, or
\* the boundary between the generators H and the commitments R moved.
TamperRequest(req, field, k) ==
    CASE field = "T0" -> [req EXCEPT !.T0 = Shift(@)]
      [] field = "cs" -> [req EXCEPT !.proof.cs = Shift(@)]
      [] field = "S" /\ k <= Len(req.S) -> [req EXCEPT !.S[k] = Shift(@)]
      [] field = "t" /\ k <= Len(req.proof.t) -> [req EXCEPT !.proof.t[k] = Shift(@)]
      [] field = "c" /\ k <= Len(req.proof.c) -> [req EXCEPT !.proof.c[k] = Shift(@)]
      [] field = "r" /\ k <= Len(req.proof.r) -> [req EXCEPT !.proof.r[k] = Shift(@)]
      [] field = "X" /\ k <= Len(req.context.G.X) -> [req EXCEPT !.context.G.X[k] = Shift(@)]
      [] field = "Y" /\ k <= Len(req.context.G.Y) -> [req EXCEPT !.context.G.Y[k] = Shift(@)]
      [] field = "H" /\ k <= Len(req.context.H) -> [req EXCEPT !.context.H[k] = Shift(@)]
      [] field = "R" /\ k <= Len(req.context.R) -> [req EXCEPT !.context.R[k] = Shift(@)]
      [] field = "HR" /\ req.context.R # <<>> ->
             [req EXCEPT !.context.H = Append(@, Head(req.context.R)),
                         !.context.R = Tail(@)]
      [] OTHER -> req

RequestFields == {"T0", "cs", "S", "t", "c", "r", "X", "Y", "H", "R", "HR"}

\* The message with the tag, one part of the proof, or the index of hop h changed.
TamperHop(m, field, h) ==
    CASE field = "tag" -> [m EXCEPT !.tags[h] = Shift(@)]
      [] field = "t1" -> [m EXCEPT !.proofs[h].t1 = Shift(@)]
      [] field = "t2" -> [m EXCEPT !.proofs[h].t2 = Shift(@)]
      [] field = "t3" -> [m EXCEPT !.proofs[h].t3 = Shift(@)]
      [] field = "c" -> [m EXCEPT !.proofs[h].c.v = Shift(@)]
      [] field = "r1" -> [m EXCEPT !.proofs[h].r1 = Shift(@)]
      [] field = "r2" -> [m EXCEPT !.proofs[h].r2 = IF @ = Nil THEN 0 ELSE Shift(@)]
      [] field = "nor2" -> [m EXCEPT !.proofs[h].r2 = Nil]
      [] field = "index" -> [m EXCEPT !.indexes[h] = (@ + 1) % NumServers]
      [] OTHER -> m

HopFields == {"tag", "t1", "t2", "t3", "c", "r1", "r2", "nor2", "index"}

\* The message in flight is replaced by altered, after some hop was signed.
Alter(altered, how) ==
    /\ phase = "pipeline"
    /\ err = "nil"
    /\ aux.altered = "no"
    /\ Len(msg.sigs) > 0
    /\ altered # msg
    /\ msg' = altered
    /\ aux' = [aux EXCEPT !.altered = how,
                          !.len = Len(altered.sigs),
                          !.changed = (TranscriptBytes(altered, Len(msg.sigs))
                                         # TranscriptBytes(msg, Len(msg.sigs)))]
    /\ err' = "none"
    /\ UNCHANGED <<context, Tf, phase, fork, first, cl, round, ch, setup>>

\* A field of the request is changed.
TamperWithRequest ==
    \E field \in RequestFields, k \in 1 .. (3 * NumClients + NumServers + 2) :
        Alter([msg EXCEPT !.request = TamperRequest(@, field, k)], "tamper")

\* The tag, the proof or the index of a signed hop is changed.
TamperWithHop ==
    \E field \in HopFields, h \in 1 .. Len(msg.sigs) :
        Alter(TamperHop(msg, field, h), "tamper")

TamperNext ==
    \/ SomeRequest
    \/ SomeServerStep
    \/ TamperWithRequest
    \/ TamperWithHop
    \/ Finalize
    \/ Reset

TamperSpec == Init /\ [][TamperNext]_vars

\* The altered message was refused by every call made on it since, and
\* nothing was appended to it.
Refused ==
    /\ err \in {"none", "error"}
    /\ Len(msg.sigs) = aux.len
    /\ Len(msg.tags) = aux.len
    /\ Tf = Nil

Fork(j, a) ==
    /\ phase = "pipeline"
    /\ err \in {"none", "nil"}
    /\ aux.altered = "no"
    /\ fork = NoMsg
    /\ LET res == ServerProtocol(CreateServer(j), context, msg, ServerNonce(a))
       IN /\ res.err = "nil"
          /\ fork' = res.msg
    /\ UNCHANGED <<context, msg, err, Tf, phase, aux, first, cl, round, ch, setup>>

\* The hop made on the copy is appended to the message, which now holds a
\* hop another server made on the same transcript.
Merge ==
    /\ fork # NoMsg
    /\ Len(msg.sigs) >= Len(fork.sigs)
    /\ SubSeq(msg.sigs, 1, Len(fork.sigs) - 1) = SubSeq(fork.sigs, 1, Len(fork.sigs) - 1)
    /\ msg.indexes[Len(fork.sigs)] # Last(fork.indexes)
    /\ Alter([msg EXCEPT !.tags = Append(@, Last(fork.tags)),
                         !.proofs = Append(@, Last(fork.proofs)),
                         !.indexes = Append(@, Last(fork.indexes)),
                         !.sigs = Append(@, Last(fork.sigs))], "merge")

SomeFork == \E j \in 0 .. (NumServers - 1), a \in 0 .. MaxSeed : Fork(j, a)

ForkNext ==
    \/ SomeRequest
    \/ SomeServerStep
    \/ SomeFork
    \/ Merge
    \/ Finalize
    \/ Reset

ForkSpec == Init /\ [][ForkNext]_vars

ServerCall(j, a) ==
    /\ phase = "pipeline"
    /\ Len(aux.calls) <= NumServers + 1
    /\ LET res == ServerProtocol(CreateServer(j), context, msg, ServerNonce(a))
       IN /\ msg' = res.msg
          /\ err' = res.err
    /\ aux' = [aux EXCEPT !.calls = Append(@, j)]
    /\ UNCHANGED <<context, Tf, phase, fork, first, cl, round, ch, setup>>

SomeServerCall ==
    \E j \in 0 .. (NumServers - 1), a \in 0 .. MaxSeed : ServerCall(j, a)

CallNext ==
    \/ SomeRequest
    \/ SomeServerCall
    \/ Reset

CallSpec == Init /\ [][CallNext]_vars

\* This step is a ServerProtocol call.
Called ==
    /\ phase = "pipeline"
    /\ Len(aux'.calls) = Len(aux.calls) + 1
    /\ SubSeq(aux'.calls, 1, Len(aux.calls)) = aux.calls

\* The four vectors of m have one length, at most n.
EqualLengths(m) ==
    /\ Len(m.tags) = Len(m.proofs)
    /\ Len(m.proofs) = Len(m.indexes)
    /\ Len(m.indexes) = Len(m.sigs)
    /\ Len(m.indexes) <= NumServers

\* m2 is m1 with one hop more, of server j and signed by server j.
GrownByOne(m1, m2, j) ==
    /\ m2.request = m1.request
    /\ Len(m2.indexes) = Len(m1.indexes) + 1
    /\ SubSeq(m2.tags, 1, Len(m1.tags)) = m1.tags
    /\ SubSeq(m2.proofs, 1, Len(m1.proofs)) = m1.proofs
    /\ SubSeq(m2.indexes, 1, Len(m1.indexes)) = m1.indexes
    /\ SubSeq(m2.sigs, 1, Len(m1.sigs)) = m1.sigs
    /\ Last(m2.indexes) = j
    /\ Last(m2.sigs).index = j

\* C11: after every step the four vectors of the message have one length,
\* at most n; a ServerProtocol call that returns nil appends exactly one
\* entry to each, with the calling server as index and as signer, and a
\* call that does not return nil appends nothing.
C11_VectorsGrowTogether ==
    [][/\ EqualLengths(msg')
       /\ Called =>
             IF err' = "nil"
             THEN GrownByOne(msg, msg', Last(aux'.calls))
             ELSE msg' = msg]_vars

C11_Witness ==
    /\ phase = "pipeline"
    /\ NumServers = 2
    /\ Len(aux.calls) = 3
    /\ msg.indexes = <<1, 0>>
    /\ msg.sigs[1].index = 1
    /\ msg.sigs[2].index = 0
    /\ err = "error"

\* Some server index occurs twice in indexes.
DuplicateIndex(m) ==
    \E h1, h2 \in 1 .. Len(m.indexes) : h1 # h2 /\ m.indexes[h1] = m.indexes[h2]

\* C12: in a message built by ServerProtocol calls alone no server index
\* occurs twice in indexes.
C12_NoServerTwice == phase = "pipeline" => ~DuplicateIndex(msg)

\* C13: a ServerProtocol call on a message that holds n hops returns an
\* error and leaves the message as it was, whichever server calls.
C13_FullMessageRefused ==
    [][(Called /\ Len(msg.indexes) = NumServers) => (err' = "error" /\ msg' = msg)]_vars

C13_Witness ==
    /\ phase = "pipeline"
    /\ Len(msg.indexes) = NumServers
    /\ Len(aux.calls) = NumServers + 2
    /\ aux.calls[NumServers + 1] # aux.calls[NumServers + 2]
    /\ err = "error"

\* --------------------------------------------- the misbehaviour branch
\* The shape checks of ServerProtocol pass for m.
ShapeChecks(ctx, m) ==
    /\ ValidateClientMessage(m.request)
    /\ Len(m.indexes) = Len(m.proofs)
    /\ Len(m.proofs) = Len(m.tags)
    /\ Len(m.tags) = Len(m.sigs)
    /\ Len(m.indexes) < Len(ctx.G.Y)

\* Every hop proof of m verifies for the server that made it: a proof
\* without r2 as a misbehaving proof of server indexes[h], the others as
\* server proofs.
HopProofsVerify(ctx, m) ==
    \A h \in 0 .. (Len(m.proofs) - 1) :
        IF At(m.proofs, h).r2 = Nil
        THEN verifyMisbehavingProof(ctx, At(m.indexes, h), At(m.proofs, h),
                                    At(m.request.S, 0))
        ELSE verifyServerProof(ctx, h, m)

\* Everything ServerProtocol verifies before it looks at the chain.
AllVerified(ctx, m) ==
    /\ ShapeChecks(ctx, m)
    /\ CheckSignatures(ctx, m)
    /\ VerifyClientProof(m.request)
    /\ HopProofsVerify(ctx, m)

\* C14: a ServerProtocol call appends a hop with a misbehaving proof only
\* if the shape checks, every hop signature, the client proof and every
\* hop proof of the message it received verify and the chain is broken for
\* the calling server; when one of those verifications fails the call
\* returns an error and appends nothing, at whatever position.
C14_MisbehaviourOnlyWhenVerified ==
    [][Called =>
         /\ (err' = "nil" /\ Last(msg'.proofs).r2 = Nil) =>
                 /\ AllVerified(context, msg)
                 /\ Misbehaving(CreateServer(Last(aux'.calls)), msg)
         /\ ~AllVerified(context, msg) => (err' = "error" /\ msg' = msg)]_vars

C14_Witness ==
    /\ phase = "pipeline"
    /\ aux.altered = "no"
    /\ err = "nil"
    /\ Len(msg.proofs) = 2
    /\ msg.proofs[1].r2 # Nil
    /\ msg.proofs[2].r2 = Nil
    /\ msg.tags[2] = PointNull
    /\ msg.tags[1] # PointNull

\* ------------------------------------------------ the proofs of the hops
\* The message in flight holds a hop with a misbehaving proof.
HoldsMisbehavingHop == \E h \in 1 .. Len(msg.proofs) : msg.proofs[h].r2 = Nil

\* C15: a message whose hops were all made by ServerProtocol, one of them
\* with a misbehaving proof, and that holds fewer than n hops is accepted
\* by the ServerProtocol call of the next server, wherever the pipeline
\* started.
C15_MisbehavingProofAccepted ==
    (/\ phase = "pipeline"
     /\ aux.altered = "no"
     /\ Len(msg.indexes) < NumServers
     /\ HoldsMisbehavingHop) => err = "nil"

\* C16: every server proof ServerProtocol stored in the message, at
\* whatever position and by whatever server, is accepted by the verifiers
\* of the server proof (verifyServerProof and VerifyServerProof).
C16_ServerProofAccepted ==
    (phase = "pipeline" /\ aux.altered = "no") =>
        \A h \in 0 .. (Len(msg.proofs) - 1) :
            At(msg.proofs, h).r2 # Nil =>
                /\ verifyServerProof(context, h, msg)
                /\ VerifyServerProof(context, h, msg)

\* ------------------------------------------------------ the round secrets
\* Server j with the round secret it holds now.
ServerOf(j) == [CreateServer(j) EXCEPT !.r = round.r[j + 1]]

\* The secret a server picks for a new round.
NewSecret(r) == (r % (Q - 1)) + 1

\* Server j calls GenerateNewRoundSecret: its secret is replaced, the
\* context still holds the commitment to the old one.
NewRound(j) ==
    /\ round.r[j + 1] = RoundSecret(j)
    /\ round' = [round EXCEPT !.r[j + 1] = NewSecret(@)]
    /\ UNCHANGED <<context, msg, err, Tf, phase, aux, fork, first, cl, ch, setup>>

\* The commitment server j returned is put into the context the servers
\* and the client hold, and the clients' generators are made from the new
\* commitments.
PublishRound(j) ==
    /\ At(context.R, j) # GenerateNewRoundSecret(ServerOf(j))
    /\ LET R == [context.R EXCEPT ![j + 1] = GenerateNewRoundSecret(ServerOf(j))]
       IN context' = [context EXCEPT !.R = R,
                                     !.H = [i \in 1 .. Len(context.H) |->
                                               GenerateClientGenerator(i - 1, R)]]
    /\ UNCHANGED <<msg, err, Tf, phase, aux, fork, first, cl, round, ch, setup>>

\* A variant in which the call also picks a new round secret.
RoundStepNewSecret(j, a) ==
    /\ phase = "pipeline"
    /\ err \in {"none", "nil"}
    /\ Len(aux.calls) <= NumServers
    /\ LET res == ServerProtocol(ServerOf(j), context, msg, ServerNonce(a))
       IN /\ msg' = res.msg
          /\ err' = res.err
          /\ round' = IF res.err = "nil"
                      THEN [round EXCEPT !.used = Append(@, round.r[j + 1]),
                                         !.r[j + 1] = NewSecret(@)]
                      ELSE round
    /\ aux' = [aux EXCEPT !.calls = Append(@, j)]
    /\ UNCHANGED <<context, Tf, phase, fork, first, cl, ch, setup>>

\* Server j runs ServerProtocol with the round secret it holds now.
RoundStep(j, a) ==
    /\ phase = "pipeline"
    /\ err \in {"none", "nil"}
    /\ Len(aux.calls) <= NumServers
    /\ LET res == ServerProtocol(ServerOf(j), context, msg, ServerNonce(a))
       IN /\ msg' = res.msg
          /\ err' = res.err
          /\ round' = IF res.err = "nil"
                      THEN [round EXCEPT !.used = Append(@, round.r[j + 1])]
                      ELSE round
    /\ aux' = [aux EXCEPT !.calls = Append(@, j)]
    /\ UNCHANGED <<context, Tf, phase, fork, first, cl, ch, setup>>

\* The run is over.
RoundReset ==
    /\ phase \in {"pipeline", "final"}
    /\ msg' = NoMsg
    /\ err' = "none"
    /\ Tf' = Nil
    /\ phase' = "idle"
    /\ aux' = NoAux
    /\ round' = [round EXCEPT !.used = <<>>]
    /\ UNCHANGED <<context, fork, first, cl, ch, setup>>

MemberRequest ==
    \E i \in 0 .. (NumClients - 1), z \in 1 .. MaxZ, cs \in 1 .. MaxZ,
       derive \in Derivations(NumServers) : NewRequest(i, z, cs, derive, "member")

SomeNewRound == \E j \in 0 .. (NumServers - 1) : NewRound(j)
SomePublishRound == \E j \in 0 .. (NumServers - 1) : PublishRound(j)
SomeRoundStep == \E j \in 0 .. (NumServers - 1), a \in 0 .. MaxSeed : RoundStep(j, a)

RoundNext ==
    \/ MemberRequest
    \/ SomeRoundStep
    \/ SomeNewRound
    \/ SomePublishRound
    \/ Finalize
    \/ RoundReset

RoundSpec == Init /\ [][RoundNext]_vars

\* Hop h (1-based) of the message in flight is a standard hop made with a
\* round secret the context does not hold the commitment of.
OffRound(h) ==
    /\ msg.proofs[h].r2 # Nil
    /\ At(context.R, msg.indexes[h]) # PointMul(Nil, round.used[h])

\* C17: a standard hop verifies only against a context whose R entry for
\* the hop's server is g^r for the round secret r the hop was made with;
\* under any other context the hop is rejected, and with it the message,
\* by every server's ServerProtocol and by the client's finalization.
C17_HopBoundToRoundSecret ==
    phase \in {"pipeline", "final"} =>
        \A h \in 1 .. Len(msg.proofs) :
            OffRound(h) =>
                /\ ~verifyServerProof(context, h - 1, msg)
                /\ GetFinalLinkageTag(context, msg).err = "error"
                /\ \A j \in 0 .. (NumServers - 1) :
                       ServerProtocol(ServerOf(j), context, msg, ServerNonce(0)).err = "error"

C17_Witness ==
    /\ phase = "final"
    /\ err = "error"
    /\ Len(msg.proofs) = NumServers
    /\ NumServers = 2
    /\ OffRound(1)
    /\ round.used[1] = RoundSecret(msg.indexes[1])
    /\ msg.proofs[2].r2 # Nil
    /\ ~OffRound(2)

\* ------------------------------------------------- the client's finalization
\* The signature of hop h is replaced by another value, or by a signature
\* over other data.
AlterSignature(h, part) ==
    Alter(IF part = "k"
          THEN [msg EXCEPT !.sigs[h].sig.k = Shift(@)]
          ELSE [msg EXCEPT !.sigs[h].sig.m = Tail(@)], "sig")

SomeAlterSignature ==
    \E h \in 1 .. Len(msg.sigs), part \in {"k", "m"} : AlterSignature(h, part)

\* The client calls GetFinalLinkageTag without a context or without a message.
FinalizeAbsent(what) ==
    /\ phase = "pipeline"
    /\ err \in {"none", "nil"}
    /\ LET res == GetFinalLinkageTag(IF what = "context" THEN NoContext ELSE context,
                                     IF what = "msg" THEN NoMsg ELSE msg)
       IN /\ Tf' = res.Tf
          /\ err' = res.err
    /\ phase' = "final"
    /\ aux' = [aux EXCEPT !.altered = what]
    /\ UNCHANGED <<context, msg, fork, first, cl, round, ch, setup>>

SomeFinalizeAbsent == \E what \in {"context", "msg"} : FinalizeAbsent(what)

FinalNext ==
    \/ MemberRequest
    \/ SomeRoundStep
    \/ SomeNewRound
    \/ SomeAlterSignature
    \/ Finalize
    \/ SomeFinalizeAbsent
    \/ RoundReset

FinalSpec == Init /\ [][FinalNext]_vars

\* C18: GetFinalLinkageTag returns no error only when it was given the
\* context and a message with exactly n hops in which no signature was
\* altered, every signature verifies and every hop proof verifies (no hop
\* was made with a round secret the context does not hold), and then it
\* returns the last tag; in every other case it returns an error and no tag.
C18_FinalTagOnlyWhenComplete ==
    phase = "final" =>
        /\ err \in {"nil", "error"}
        /\ err = "nil" =>
               /\ aux.altered = "no"
               /\ Len(msg.indexes) = NumServers
               /\ CheckSignatures(context, msg)
               /\ HopProofsVerify(context, msg)
               /\ \A h \in 1 .. Len(msg.proofs) : ~OffRound(h)
               /\ Tf = Last(msg.tags)
        /\ err = "error" => Tf = Nil

C18_Witness ==
    /\ phase = "final"
    /\ err = "error"
    /\ Tf = Nil
    /\ aux.altered = "sig"
    /\ NumServers = 2
    /\ Len(msg.indexes) = NumServers
    /\ HopProofsVerify(context, msg)

\* ------------------------------------------------- the signed challenge
\* The leader creates the challenge from the value cs the openings gave.
ChInit(leader, cs) ==
    /\ ch = NoCh
    /\ phase = "idle"
    /\ cl = NoCl
    /\ ch' = [stage |-> "signing", challenge |-> InitializeChallenge(cs),
               leader |-> leader, calls |-> <<>>, good |-> TRUE, err |-> "none",
               injected |-> "no", len |-> 0, called |-> FALSE, final |-> NoFinal,
               resp |-> NoResp, same |-> TRUE]
    /\ UNCHANGED <<context, msg, err, Tf, phase, aux, fork, first, cl, round, setup>>

\* Server j runs CheckUpdateChallenge with the cs it computed itself: the
\* one the challenge carries, or another one.
ChCall(j, same) ==
    /\ ch.stage = "signing"
    /\ Len(ch.calls) <= NumServers + 1
    /\ LET cs == IF same THEN ch.challenge.cs ELSE Shift(ch.challenge.cs)
           res == CheckUpdateChallenge(CreateServer(j), context, cs, ch.challenge)
       IN ch' = [ch EXCEPT !.challenge = res.challenge,
                           !.err = res.err,
                           !.calls = Append(@, j),
                           !.good = @ /\ same,
                           !.called = TRUE,
                           !.same = same,
                           !.final = NoFinal,
                           !.resp = NoResp]
    /\ UNCHANGED <<context, msg, err, Tf, phase, aux, fork, first, cl, round, setup>>

\* On its way between two servers the challenge gets a second signature
\* of a signer: a copy of the signature at position h, or two entries
\* that name the signer i.
ChInject(kind, h, i) ==
    /\ ch.stage = "signing"
    /\ ch.injected = "no"
    /\ kind = "copy" => h <= Len(ch.challenge.sigs)
    /\ LET entry == [index |-> i, sig |-> ECDSASign(OutsiderPrivate, ScalarBytes(ch.challenge.cs))]
           sigs == IF kind = "copy"
                   THEN Append(ch.challenge.sigs, ch.challenge.sigs[h])
                   ELSE ch.challenge.sigs \o <<entry, entry>>
       IN ch' = [ch EXCEPT !.challenge.sigs = sigs,
                           !.injected = kind,
                           !.len = Len(sigs),
                           !.called = FALSE,
                           !.final = NoFinal,
                           !.resp = NoResp]
    /\ UNCHANGED <<context, msg, err, Tf, phase, aux, fork, first, cl, round, setup>>

\* The leader runs FinalizeChallenge on the challenge as it stands, or with
\* the context or the challenge absent.
ChFinalize(what) ==
    /\ ch.stage = "signing"
    /\ ch.final = NoFinal
    /\ LET res == FinalizeChallenge(IF what = "nocontext" THEN NoContext ELSE context,
                                    IF what = "nochallenge" THEN NoChallenge
                                    ELSE ch.challenge)
       IN ch' = [ch EXCEPT !.final = [err |-> res.err, challenge |-> res.challenge,
                                      what |-> what]]
    /\ UNCHANGED <<context, msg, err, Tf, phase, aux, fork, first, cl, round, setup>>

\* The challenge as it reaches the client: as it stands, with cs replaced
\* by another scalar under the same signatures, or with the signature at
\* position 1 altered.
ClientChallenge(challenge, how) ==
    [cs |-> IF how = "cs" THEN Shift(challenge.cs) ELSE challenge.cs,
     Sigs |-> IF how = "sig"
              THEN [challenge.sigs EXCEPT ![1].sig.k = Shift(@)]
              ELSE challenge.sigs]

\* Member i, who made a request and the commitments of its proof, runs
\* GenerateProofResponses on the challenge it receives.
ChRespond(i, how) ==
    /\ ch.stage = "signing"
    /\ ch.resp = NoResp
    /\ how = "sig" => Len(ch.challenge.sigs) > 0
    /\ LET client == CreateClient(i)
           req == CreateRequest(client, context, 1)
           com == GenerateProofCommitments(client, context, req.T0, req.s,
                                           Vrand(0, 2 * Len(context.H)),
                                           Wrand(0, Len(context.H)))
           given == ClientChallenge(ch.challenge, how)
           res == GenerateProofResponses(client, context, req.s, given, com.v, com.w)
       IN ch' = [ch EXCEPT !.resp = [err |-> res.err, c |-> res.c, r |-> res.r,
                                     how |-> how, given |-> given]]
    /\ UNCHANGED <<context, msg, err, Tf, phase, aux, fork, first, cl, round, setup>>

\* The challenge is dropped.
ChReset ==
    /\ ch.stage = "signing"
    /\ ch' = NoCh
    /\ UNCHANGED <<context, msg, err, Tf, phase, aux, fork, first, cl, round, setup>>

SomeChInit == \E leader \in 0 .. (NumServers - 1), cs \in 0 .. MaxZ : ChInit(leader, cs)
SomeChCall == \E j \in 0 .. (NumServers - 1), same \in BOOLEAN : ChCall(j, same)
SomeChInject ==
    \E kind \in {"copy", "pair"}, h \in 1 .. MaxServers, i \in (0 - 1) .. NumServers :
        ChInject(kind, h, i)

SomeChFinalize == \E what \in {"both", "nocontext", "nochallenge"} : ChFinalize(what)

SomeChRespond ==
    \E i \in 0 .. (NumClients - 1), how \in {"asis", "cs", "sig"} : ChRespond(i, how)

ChallengeNext ==
    \/ SomeChInit
    \/ SomeChCall
    \/ SomeChInject
    \/ SomeChFinalize
    \/ SomeChRespond
    \/ ChReset

ChallengeSpec == Init /\ [][ChallengeNext]_vars

\* The servers were called in round-robin order from the leader, and after
\* the round the leader again.
RoundRobin(calls, leader) ==
    \A k \in 1 .. Len(calls) :
        calls[k] = IF k <= NumServers THEN (leader + k - 1) % NumServers ELSE leader

\* C19: from a challenge with the right cs and no signature, when the n
\* servers call CheckUpdateChallenge once each in round-robin order from
\* the leader, every call returns nil and adds the caller's signature, so
\* the list ends with n signatures; the leader's calls that close the loop
\* return nil and leave the n signatures.
C19_RoundRobinCompletes ==
    (/\ ch.stage = "signing"
     /\ ch.injected = "no"
     /\ ch.good
     /\ RoundRobin(ch.calls, ch.leader)) =>
        /\ ch.err \in {"none", "nil"}
        /\ Len(ch.challenge.sigs) = IF Len(ch.calls) <= NumServers
                                     THEN Len(ch.calls) ELSE NumServers
        /\ \A k \in 1 .. Len(ch.challenge.sigs) :
               /\ ch.challenge.sigs[k].index = ch.calls[k]
               /\ ECDSAVerify(At(context.G.Y, ch.calls[k]), ScalarBytes(ch.challenge.cs),
                              ch.challenge.sigs[k].sig)

C19_Witness ==
    /\ ch.stage = "signing"
    /\ ch.injected = "no"
    /\ ch.good
    /\ RoundRobin(ch.calls, ch.leader)
    /\ NumServers = 2
    /\ ch.leader = 1
    /\ Len(ch.calls) = NumServers + 1
    /\ Len(ch.challenge.sigs) = NumServers
    /\ ch.err = "nil"

\* Two signatures of the challenge name the same signer.
DuplicateSigner(challenge) ==
    \E k1, k2 \in 1 .. Len(challenge.sigs) :
        k1 # k2 /\ challenge.sigs[k1].index = challenge.sigs[k2].index

\* This step is a CheckUpdateChallenge call.
ChCalled ==
    /\ ch.stage = "signing"
    /\ ch'.stage = "signing"
    /\ Len(ch'.calls) = Len(ch.calls) + 1

\* C20: a CheckUpdateChallenge call on a challenge in which two signatures
\* name the same signer returns an error and leaves the list of
\* signatures as it was.
C20_DuplicateSignerRefused ==
    [][(ChCalled /\ DuplicateSigner(ch.challenge)) =>
           (ch'.err = "error" /\ ch'.challenge = ch.challenge)]_vars

\* C21: when a challenge gets its n signatures from CheckUpdateChallenge
\* calls that all returned nil, whichever servers called and however
\* often, the n signatures name n distinct servers: no server's
\* signature was appended twice.
C21_SignersDistinct ==
    (/\ ch.stage = "signing"
     /\ ch.injected = "no"
     /\ ch.good
     /\ ch.err = "nil"
     /\ Len(ch.challenge.sigs) = NumServers) =>
        ~DuplicateSigner(ch.challenge)

\* C22: FinalizeChallenge returns a challenge for the client, with the cs
\* and the signatures of the challenge under construction, exactly when
\* context and challenge are present and the challenge carries n
\* signatures; otherwise it returns an error and no challenge.
C22_FinalizeOnlyComplete ==
    (ch.stage = "signing" /\ ch.final # NoFinal) =>
        LET complete == /\ ch.final.what = "both"
                        /\ Len(ch.challenge.sigs) = NumServers
        IN /\ ch.final.err = IF complete THEN "nil" ELSE "error"
           /\ complete => /\ ch.final.challenge.cs = ch.challenge.cs
                          /\ ch.final.challenge.Sigs = ch.challenge.sigs
           /\ ~complete => ch.final.challenge = NoChallenge

C22_Witness ==
    /\ ch.stage = "signing"
    /\ ch.final # NoFinal
    /\ ch.final.what = "both"
    /\ ch.final.err = "error"
    /\ Len(ch.challenge.sigs) = NumServers - 1
    /\ Len(ch.challenge.sigs) > 0

\* Every server of the context has a signature over the challenge's cs in
\* the challenge given to the client, and there are n of them.
SignedByAll(given) ==
    /\ Len(given.Sigs) = NumServers
    /\ \A j \in 0 .. (NumServers - 1) :
           \E k \in 1 .. Len(given.Sigs) :
               /\ given.Sigs[k].index = j
               /\ ECDSAVerify(At(context.G.Y, j), ScalarBytes(given.cs), given.Sigs[k].sig)

\* C23: GenerateProofResponses returns c and r only for a challenge that
\* carries a valid signature over cs of each of the n servers; a
\* challenge signed by fewer than n servers is refused.
C23_RespondsOnlyToFullySigned ==
    (ch.stage = "signing" /\ ch.resp.err = "nil") => SignedByAll(ch.resp.given)

\* Some signature of the challenge given to the client does not verify
\* over its cs under the key of the signer it names.
BadSignature(given) ==
    \E k \in 1 .. Len(given.Sigs) :
        \/ ~InRange(context.G.Y, given.Sigs[k].index)
        \/ ~ECDSAVerify(At(context.G.Y, given.Sigs[k].index), ScalarBytes(given.cs),
                        given.Sigs[k].sig)

\* C24: when a signature of the challenge does not verify over the cs it
\* carries under the key of the signer it names, GenerateProofResponses
\* returns an error and neither c nor r.
C24_BadSignatureRefused ==
    (/\ ch.stage = "signing"
     /\ ch.resp # NoResp
     /\ BadSignature(ch.resp.given)) =>
        /\ ch.resp.err = "error"
        /\ ch.resp.c = <<>>
        /\ ch.resp.r = <<>>

\* ------------------------------------------- commitments and their openings
MaxOpening == 2

NoOpen == [err |-> "none", cs |-> Nil]

\* Server j generates a commitment with the opening it picked; commitment
\* and opening are collected at the end of the two vectors.
CoGenerate(j, opening) ==
    /\ phase = "idle"
    /\ cl = NoCl
    /\ \/ ch = NoCh
       \/ /\ ch.stage = "commit"
          /\ ch.tampered = "no"
          /\ Len(ch.commits) <= NumServers
    /\ LET g == GenerateCommitment(CreateServer(j), opening)
           had == IF ch = NoCh THEN [commits |-> <<>>, openings |-> <<>>] ELSE ch
       IN ch' = [stage |-> "commit",
                 commits |-> Append(had.commits, g.commit),
                 openings |-> Append(had.openings, g.opening),
                 tampered |-> "no", verr |-> "none", open |-> NoOpen]
    /\ UNCHANGED <<context, msg, err, Tf, phase, aux, fork, first, cl, round, setup>>

\* The collected vectors with one change at position p: an opening or a
\* commitment dropped from the end, an opening set to zero or to another
\* scalar, a commitment replaced by another point, the index stored with a
\* commitment raised by one, or its signature altered.
Spoiled(c, how, p) ==
    CASE how = "cutopening" -> [c EXCEPT !.openings = SubSeq(@, 1, Len(@) - 1)]
      [] how = "cutcommit" -> [c EXCEPT !.commits = SubSeq(@, 1, Len(@) - 1)]
      [] how = "zero" -> [c EXCEPT !.openings[p] = 0]
      [] how = "opening" -> [c EXCEPT !.openings[p] = ScalarAdd(@, 1)]
      [] how = "commit" -> [c EXCEPT !.commits[p].commit = PointAdd(@, PointBase)]
      [] how = "index" -> [c EXCEPT !.commits[p].sigs.index = @ + 1]
      [] how = "sig" -> [c EXCEPT !.commits[p].sigs.sig.k = Shift(@)]

Spoilings == {"cutopening", "cutcommit", "zero", "opening", "commit", "index", "sig"}

CoSpoil(how, p) ==
    /\ ch.stage = "commit"
    /\ ch.tampered = "no"
    /\ p <= Len(ch.commits)
    /\ how \in {"cutopening", "cutcommit"} => p = Len(ch.commits)
    /\ Spoiled(ch, how, p) # ch
    /\ ch' = [Spoiled(ch, how, p) EXCEPT !.tampered = how, !.verr = "none", !.open = NoOpen]
    /\ UNCHANGED <<context, msg, err, Tf, phase, aux, fork, first, cl, round, setup>>

\* A server runs VerifyCommitmentSignature on the collected commitments.
CoVerify ==
    /\ ch.stage = "commit"
    /\ ch.verr = "none"
    /\ ch' = [ch EXCEPT !.verr = VerifyCommitmentSignature(context, ch.commits)]
    /\ UNCHANGED <<context, msg, err, Tf, phase, aux, fork, first, cl, round, setup>>

\* A server runs CheckOpenings on the collected commitments and openings.
CoOpen ==
    /\ ch.stage = "commit"
    /\ ch.open = NoOpen
    /\ ch' = [ch EXCEPT !.open = CheckOpenings(context, ch.commits, ch.openings)]
    /\ UNCHANGED <<context, msg, err, Tf, phase, aux, fork, first, cl, round, setup>>

\* The round is abandoned.
CoReset ==
    /\ ch.stage = "commit"
    /\ ch' = NoCh
    /\ UNCHANGED <<context, msg, err, Tf, phase, aux, fork, first, cl, round, setup>>

SomeCoGenerate ==
    \E j \in 0 .. (NumServers - 1), opening \in 1 .. MaxOpening : CoGenerate(j, opening)

SomeCoSpoil == \E how \in Spoilings, p \in 1 .. (MaxServers + 1) : CoSpoil(how, p)

CommitNext ==
    \/ SomeCoGenerate
    \/ SomeCoSpoil
    \/ CoVerify
    \/ CoOpen
    \/ CoReset

CommitSpec == Init /\ [][CommitNext]_vars

\* Every commitment is g to the power of the opening at its position.
AllOpened(commits, openings) ==
    /\ Len(commits) = Len(openings)
    /\ \A i \in 1 .. Len(commits) : commits[i].commit = PointMul(Nil, openings[i])

C26_CommitmentsVerified ==
    (ch.stage = "commit" /\ ch.verr = "nil") =>
        /\ Len(ch.commits) = NumServers
        /\ \A j \in 0 .. (NumServers - 1) :
               /\ ch.commits[j + 1].sigs.index = j
               /\ ECDSAVerify(At(context.G.Y, j), PointBytes(ch.commits[j + 1].commit),
                              ch.commits[j + 1].sigs.sig)

\* Every signature of the challenge verifies over its cs under the key of
\* the signer it names.
PresentSignaturesVerify(challenge) ==
    \A k \in 1 .. Len(challenge.sigs) :
        /\ InRange(context.G.Y, challenge.sigs[k].index)
        /\ ECDSAVerify(At(context.G.Y, challenge.sigs[k].index), ScalarBytes(challenge.cs),
                       challenge.sigs[k].sig)

SomeChSign == \E j \in 0 .. (NumServers - 1) : ChCall(j, TRUE)

PhaseNext ==
    \/ SomeChInit
    \/ SomeChSign
    \/ MemberRequest
    \/ SomeServerStep
    \/ Reset
    \/ ChReset

PhaseSpec == Init /\ [][PhaseNext]_vars

\* Server j served the pipeline for the request in flight.
Served(j) ==
    /\ phase = "pipeline"
    /\ \E h \in 1 .. Len(msg.indexes) : msg.indexes[h] = j

\* C28: within one context, without a new round, a server moves forward
\* only: once it served the pipeline it does not sign a challenge again,
\* so no CheckUpdateChallenge call by a server that already served the
\* request in flight adds its signature.
C28_PhasesOnlyForward ==
    [][(/\ ChCalled
        /\ ch'.err = "nil"
        /\ Len(ch'.challenge.sigs) = Len(ch.challenge.sigs) + 1) =>
           ~Served(Last(ch'.calls))]_vars

\* ------------------------------------------- signer indexes off the roster
\* The signer index stored with the signature of hop h, or the index of
\* hop h, is replaced by i.
MisnameHop(part, h, i) ==
    Alter(IF part = "signer"
          THEN [msg EXCEPT !.sigs[h].index = i]
          ELSE [msg EXCEPT !.indexes[h] = i], part)

SomeMisnameHop ==
    \E part \in {"signer", "hop"}, h \in 1 .. Len(msg.sigs), i \in {0 - 1, NumServers} :
        MisnameHop(part, h, i)

\* A request is made while no challenge is being signed.
IndexRequest == ch = NoCh /\ MemberRequest

\* The challenge is signed, altered and answered while no request is in
\* flight.
IndexChallenge ==
    /\ phase = "idle"
    /\ \/ SomeChCall
       \/ SomeChInject
       \/ SomeChRespond
       \/ ChReset

IndexNext ==
    \/ IndexRequest
    \/ SomeServerCall
    \/ SomeMisnameHop
    \/ Reset
    \/ SomeChInit
    \/ IndexChallenge

IndexSpec == Init /\ [][IndexNext]_vars

\* C29: a challenge signature or hop signature that names a signer index
\* below 0 or not below n, or a hop with such an index, never drives
\* CheckUpdateChallenge, GenerateProofResponses or ServerProtocol into an
\* out-of-range access: each of them returns an error.
C29_NoOutOfRangeAccess ==
    /\ err # "panic"
    /\ ch.stage = "signing" => (ch.err # "panic" /\ ch.resp.err # "panic")

\* ------------------------------------------- the shape check on its own
\* The receiver runs ValidateClientMessage of package dagapython on the
\* assembled message.
ClValidate(byValue) ==
    /\ cl.stage = "assembled"
    /\ cl' = [cl EXCEPT !.stage = "validated"]
                 @@ [valid |-> ValidateClientMessagePython(cl.msg, byValue)]
    /\ UNCHANGED <<context, msg, err, Tf, phase, aux, fork, first, round, ch, setup>>

ClSomeValidate == \E byValue \in BOOLEAN : ClValidate(byValue)

ValidateNext ==
    \/ ClSomeRequest
    \/ ClSomeCommit
    \/ ClSomeRespond
    \/ ClSomeMalform
    \/ ClSomeValidate
    \/ ClReset

ValidateSpec == Init /\ [][ValidateNext]_vars

\* The message has the shape of a request in its context of m clients and
\* n servers.
WellShaped(m) ==
    /\ Len(m.S) = Len(m.context.G.Y) + 2
    /\ At(m.S, 1) = PointBase
    /\ m.T0 # Nil
    /\ m.proof.cs # Nil
    /\ Len(m.proof.c) = Len(m.context.G.X)
    /\ Len(m.proof.r) = 2 * Len(m.context.G.X)
    /\ Len(m.proof.t) = 3 * Len(m.context.G.X)

\* C30: ValidateClientMessage returns true exactly for a message with
\* |S| = n + 2, S[1] = g, T0 and cs present, |c| = m, |r| = 2m and
\* |t| = 3m; so it accepts the message assembled from an honest request
\* in every context, also when m differs from n.
C30_ValidatedIffWellShaped ==
    cl.stage = "validated" => (cl.valid <=> WellShaped(cl.msg))

\* ------------------------------------------------- the clients' generators
MaxComputations == 3

\* The orders in which a range over a map with the keys 1 .. n visits them.
Orders(n) == {o \in [1 .. n -> 1 .. n] : \A a, b \in 1 .. n : a # b => o[a] # o[b]}

\* A party computes the generator of client i from the servers'
\* commitments R of the context: with GenerateClientGenerator over the
\* slice, or with computeClientGroupGenerator over the map, whose range
\* visits the commitments in the order order.
GenCompute(fn, i, order) ==
    /\ phase = "idle"
    /\ cl = NoCl
    /\ ch = NoCh
    /\ Len(setup.gens) < MaxComputations
    /\ fn = "slice" => order = [k \in 1 .. NumServers |-> k]
    /\ setup' = [setup EXCEPT !.gens =
                    Append(@, [fn |-> fn, i |-> i, R |-> context.R, order |-> order,
                               gen |-> IF fn = "slice"
                                       THEN GenerateClientGenerator(i, context.R)
                                       ELSE computeClientGroupGenerator(i, context.R, order)])]
    /\ UNCHANGED <<context, msg, err, Tf, phase, aux, fork, first, cl, round, ch>>

\* The computations are forgotten.
GenReset ==
    /\ setup.gens # <<>>
    /\ setup' = NoSetup
    /\ UNCHANGED <<context, msg, err, Tf, phase, aux, fork, first, cl, round, ch>>

SomeGenCompute ==
    \E fn \in {"slice", "map"}, i \in 0 .. (NumClients - 1), order \in Orders(NumServers) :
        GenCompute(fn, i, order)

GeneratorNext ==
    \/ SomeGenCompute
    \/ GenReset

GeneratorSpec == Init /\ [][GeneratorNext]_vars

\* C31: the generator of a client is a function of the client's index i
\* and the commitments R alone: two computations by the same function
\* with the same i and the same R give the same point.
C31_GeneratorDependsOnIndexAndR ==
    \A a, b \in 1 .. Len(setup.gens) :
        (/\ setup.gens[a].fn = setup.gens[b].fn
         /\ setup.gens[a].i = setup.gens[b].i
         /\ setup.gens[a].R = setup.gens[b].R) =>
            setup.gens[a].gen = setup.gens[b].gen

\* C38: for the same commitments, the generators computed for two
\* different client indexes are different points.
C38_GeneratorsDifferByClient ==
    \A a, b \in 1 .. Len(setup.gens) :
        (/\ setup.gens[a].fn = setup.gens[b].fn
         /\ setup.gens[a].R = setup.gens[b].R
         /\ setup.gens[a].order = setup.gens[b].order
         /\ setup.gens[a].i # setup.gens[b].i) =>
            setup.gens[a].gen # setup.gens[b].gen

\* --------------------------------------------- the relay and the trustees
\* Frames of writeMessage the stack of a goroutine holds before the
\* runtime stops the program.
MaxDepth == 6

PROTOCOL_TYPE_DAGA == 0
TRUSTEE_SETUP == 0

\* MarshalPointsMap: the number of entries, then key, length and bytes of
\* every point.
RECURSIVE MarshalEntries(_, _)
MarshalEntries(points, k) ==
    IF k > Len(points) THEN <<>>
    ELSE <<<<"K", k - 1>>, <<"L", Len(PointBytes(points[k]))>>>> \o PointBytes(points[k])
             \o MarshalEntries(points, k + 1)

MarshalPointsMap(points) == <<<<"N", Len(points)>>>> \o MarshalEntries(points, 1)

\* UnmarshalPointsMap: the points of the entries, or a failure on bytes
\* that are no marshalled map.
UnmarshalPointsMap(arr) ==
    IF arr = <<>> \/ Head(arr)[1] # "N" \/ Len(arr) # 1 + 3 * Head(arr)[2]
    THEN [err |-> "panic", points |-> <<>>]
    ELSE IF \E k \in 1 .. Head(arr)[2] :
                \/ arr[3 * k - 1] # <<"K", k - 1>>
                \/ arr[3 * k][1] # "L"
                \/ arr[3 * k + 1][1] # "P"
         THEN [err |-> "error", points |-> <<>>]
         ELSE [err |-> "nil", points |-> [k \in 1 .. Head(arr)[2] |-> arr[3 * k + 1][2]]]

\* relaySetup up to its first writeMessage: the roster is marshalled, the
\* message is built and the write to the first trustee begins.
RelayStart ==
    /\ phase = "idle"
    /\ cl = NoCl
    /\ ch = NoCh
    /\ setup = NoSetup
    /\ setup' = [stage |-> "setup", gens |-> <<>>,
                 relay |-> [pc |-> "write", depth |-> 0,
                            len |-> 1 + Len(MarshalPointsMap(context.G.X)),
                            Initialized |-> FALSE],
                 trustees |-> [j \in 1 .. NumServers |->
                                  [pc |-> "wait", roster |-> <<>>,
                                   commits |-> [k \in 1 .. NumServers |-> Nil],
                                   gens |-> <<>>]],
                 net |-> [j \in 1 .. NumServers |-> [k \in 1 .. NumServers |-> Nil]]]
    /\ UNCHANGED <<context, msg, err, Tf, phase, aux, fork, first, cl, round, ch>>

\* writeMessage(conn, msg): the message is copied behind the protocol
\* type and writeMessage is called on the copy; nothing is written to the
\* connection and the call does not return.  At the stack limit the
\* runtime stops the program.
RelayWrite ==
    /\ setup.stage = "setup"
    /\ setup.relay.pc = "write"
    /\ setup' = [setup EXCEPT !.relay =
                    IF setup.relay.depth < MaxDepth
                    THEN [@ EXCEPT !.depth = @ + 1, !.len = @ + 1]
                    ELSE [@ EXCEPT !.pc = "crashed"]]
    /\ UNCHANGED <<context, msg, err, Tf, phase, aux, fork, first, cl, round, ch>>

\* Trustee j is handed the relay's message, the protocol type, TRUSTEE_SETUP
\* and the marshalled roster: HandleMessage and trusteeSetup up to the first
\* read.  The roster is unmarshalled, the commitment g^r is stored and sent
\* to the other trustees.
TrHandle(j) ==
    /\ setup.stage = "setup"
    /\ setup.trustees[j].pc = "wait"
    /\ LET wire == <<<<"B", PROTOCOL_TYPE_DAGA>>, <<"B", TRUSTEE_SETUP>>>>
                       \o MarshalPointsMap(context.G.X)
           handled == Head(wire)[2] = TRUSTEE_SETUP
           roster == UnmarshalPointsMap(Tail(Tail(wire)))
           R == PointMul(PointBase, round.r[j])
       IN /\ handled
          /\ IF roster.err # "nil"
             THEN setup' = [setup EXCEPT !.trustees[j].pc = roster.err]
             ELSE setup' = [setup EXCEPT
                               !.trustees[j] = [@ EXCEPT !.pc = "read",
                                                         !.roster = roster.points,
                                                         !.commits[j] = R],
                               !.net[j] = [k \in 1 .. NumServers |->
                                              IF k = j THEN Nil ELSE R]]
    /\ UNCHANGED <<context, msg, err, Tf, phase, aux, fork, first, cl, round, ch>>

\* trusteeSetup, the read from the trustee k: ReadMessage returns the
\* commitment k sent and a nil error, the branch for err == nil is taken
\* and err.Error() is called on the nil error.
TrRead(j, k) ==
    /\ setup.stage = "setup"
    /\ setup.trustees[j].pc = "read"
    /\ k # j
    /\ \A k2 \in 1 .. (k - 1) : k2 = j
    /\ setup.net[k][j] # Nil
    /\ setup' = [setup EXCEPT !.trustees[j].pc = "panic", !.net[k][j] = Nil]
    /\ UNCHANGED <<context, msg, err, Tf, phase, aux, fork, first, cl, round, ch>>

\* trusteeSetup after the loop over the other trustees, when there is
\* none: the commitments are stored, the generator of every client of the
\* roster is computed and nil is returned.
TrGenerate(j, order) ==
    /\ setup.stage = "setup"
    /\ setup.trustees[j].pc = "read"
    /\ NumServers = 1
    /\ setup' = [setup EXCEPT !.trustees[j] =
                    [@ EXCEPT !.pc = "done",
                              !.gens = [i \in 1 .. Len(setup.trustees[j].roster) |->
                                           computeClientGroupGenerator(
                                               i - 1, setup.trustees[j].commits, order)]]]
    /\ UNCHANGED <<context, msg, err, Tf, phase, aux, fork, first, cl, round, ch>>

SomeTrHandle == \E j \in 1 .. NumServers : TrHandle(j)
SomeTrRead == \E j, k \in 1 .. NumServers : TrRead(j, k)
SomeTrGenerate == \E j \in 1 .. NumServers, order \in Orders(NumServers) : TrGenerate(j, order)

SetupNext ==
    \/ RelayStart
    \/ RelayWrite
    \/ SomeTrHandle
    \/ SomeTrRead
    \/ SomeTrGenerate

\* Relay and trustees keep running: a step that stays possible is taken.
SetupSpec == Init /\ [][SetupNext]_vars /\ WF_vars(SetupNext)

\* Every trustee returned nil from its setup handler with a commitment of
\* every trustee and a generator of every client, and the relay set
\* Initialized.
SetupDone ==
    /\ setup.stage = "setup"
    /\ setup.relay.Initialized
    /\ \A j \in 1 .. NumServers :
           /\ setup.trustees[j].pc = "done"
           /\ \A k \in 1 .. NumServers : setup.trustees[j].commits[k] # Nil
           /\ Len(setup.trustees[j].gens) = NumClients

\* C39: once the relay has started the setup and no connection fails,
\* every write returns, every trustee's handler returns nil with all
\* commitments and generators stored, and the relay sets Initialized.
C39_SetupCompletes == <>SetupDone

\* ------------------------------------------------- the network encoding
\* NetEncodePoint: MarshalBinary is called on the point, a call on a nil
\* interface value when the point is absent.
NetEncodePoint(point) ==
    IF point = Nil THEN [err |-> "panic", Value |-> <<>>]
    ELSE [err |-> "nil", Value |-> PointBytes(point)]

\* (netpoint *NetPoint) NetDecode
NetPointDecode(netpoint) ==
    IF Len(netpoint.Value) = 1 /\ netpoint.Value[1][1] = "P"
    THEN [err |-> "nil", point |-> netpoint.Value[1][2]]
    ELSE [err |-> "error", point |-> Nil]

\* NetEncodeScalar, with the same call on a nil interface value
NetEncodeScalar(scalar) ==
    IF scalar = Nil THEN [err |-> "panic", Value |-> <<>>]
    ELSE [err |-> "nil", Value |-> ScalarBytes(scalar)]

\* (netscalar *NetScalar) NetDecode
NetScalarDecode(netscalar) ==
    IF Len(netscalar.Value) = 1 /\ netscalar.Value[1][1] = "S"
    THEN [err |-> "nil", scalar |-> netscalar.Value[1][2]]
    ELSE [err |-> "error", scalar |-> Nil]

\* NetEncodePoints and NetEncodeScalars: an empty slice is encoded as an
\* empty one.
NetEncodeArray(array, kind) ==
    IF \E k \in 1 .. Len(array) : array[k] = Nil
    THEN [err |-> "panic", array |-> <<>>]
    ELSE [err |-> "nil",
          array |-> [k \in 1 .. Len(array) |->
                        [Value |-> IF kind = "P" THEN PointBytes(array[k])
                                   ELSE ScalarBytes(array[k])]]]

\* NetDecodePoints and NetDecodeScalars: an empty slice is an error.
NetDecodeArray(netarray, kind) ==
    IF Len(netarray) = 0 THEN [err |-> "Empty array", array |-> <<>>]
    ELSE IF \E k \in 1 .. Len(netarray) :
                ~(Len(netarray[k].Value) = 1 /\ netarray[k].Value[1][1] = kind)
         THEN [err |-> "error", array |-> <<>>]
         ELSE [err |-> "nil",
               array |-> [k \in 1 .. Len(netarray) |-> netarray[k].Value[1][2]]]

\* The first outcome of a sequence of outcomes that is not nil, or nil.
FirstErr(errs) ==
    IF \A k \in 1 .. Len(errs) : errs[k] = "nil" THEN "nil"
    ELSE errs[CHOOSE k \in 1 .. Len(errs) :
                  errs[k] # "nil" /\ \A k2 \in 1 .. (k - 1) : errs[k2] = "nil"]

\* (msg *ClientMessage) NetEncode, with the encoding of the context, its
\* members and the client's proof
ClientMessageNetEncode(m) ==
    LET X == NetEncodeArray(m.context.G.X, "P")
        Y == NetEncodeArray(m.context.G.Y, "P")
        R == NetEncodeArray(m.context.R, "P")
        H == NetEncodeArray(m.context.H, "P")
        S == NetEncodeArray(m.S, "P")
        T0 == NetEncodePoint(m.T0)
        cs == NetEncodeScalar(m.proof.cs)
        t == NetEncodeArray(m.proof.t, "P")
        c == NetEncodeArray(m.proof.c, "S")
        r == NetEncodeArray(m.proof.r, "S")
    IN [err |-> FirstErr(<<X.err, Y.err, R.err, H.err, S.err, T0.err,
                           cs.err, t.err, c.err, r.err>>),
        Context |-> [G |-> [X |-> X.array, Y |-> Y.array],
                     R |-> R.array, H |-> H.array],
        SArray |-> S.array, T0 |-> [Value |-> T0.Value],
        Proof |-> [Cs |-> [Value |-> cs.Value], T |-> t.array,
                   C |-> c.array, R |-> r.array]]

\* (netmsg *NetClientMessage) NetDecode
NetClientMessageDecode(n) ==
    LET X == NetDecodeArray(n.Context.G.X, "P")
        Y == NetDecodeArray(n.Context.G.Y, "P")
        R == NetDecodeArray(n.Context.R, "P")
        H == NetDecodeArray(n.Context.H, "P")
        S == NetDecodeArray(n.SArray, "P")
        T0 == NetPointDecode(n.T0)
        cs == NetScalarDecode(n.Proof.Cs)
        t == NetDecodeArray(n.Proof.T, "P")
        c == NetDecodeArray(n.Proof.C, "S")
        r == NetDecodeArray(n.Proof.R, "S")
    IN [err |-> FirstErr(<<X.err, Y.err, R.err, H.err, S.err, T0.err,
                           cs.err, t.err, c.err, r.err>>),
        request |-> AssembleMessage(
                        [G |-> [X |-> X.array, Y |-> Y.array],
                         R |-> R.array, H |-> H.array],
                        S.array, T0.point, [cs |-> cs.scalar],
                        t.array, c.array, r.array)]

\* (proof *serverProof) NetEncode: the three commitments, the challenge
\* and the two responses, r2 included
ServerProofNetEncode(proof) ==
    LET t1 == NetEncodePoint(proof.t1)
        t2 == NetEncodePoint(proof.t2)
        t3 == NetEncodePoint(proof.t3)
        r1 == NetEncodeScalar(proof.r1)
        r2 == NetEncodeScalar(proof.r2)
    IN [err |-> FirstErr(<<t1.err, t2.err, t3.err, "nil", r1.err, r2.err>>),
        T1 |-> [Value |-> t1.Value], T2 |-> [Value |-> t2.Value],
        T3 |-> [Value |-> t3.Value], C |-> [Value |-> HashScalarBytes(proof.c)],
        R1 |-> [Value |-> r1.Value], R2 |-> [Value |-> r2.Value]]

\* (netproof *NetServerProof) NetDecode
NetServerProofDecode(n) ==
    LET t1 == NetPointDecode(n.T1)
        t2 == NetPointDecode(n.T2)
        t3 == NetPointDecode(n.T3)
        cok == Len(n.C.Value) = 2 /\ n.C.Value[1][1] = "S" /\ n.C.Value[2][1] = "H"
        r1 == NetScalarDecode(n.R1)
        r2 == NetScalarDecode(n.R2)
    IN [err |-> FirstErr(<<t1.err, t2.err, t3.err,
                           IF cok THEN "nil" ELSE "error", r1.err, r2.err>>),
        proof |-> [t1 |-> t1.point, t2 |-> t2.point, t3 |-> t3.point,
                   c |-> IF cok THEN [v |-> n.C.Value[1][2], h |-> n.C.Value[2][2]]
                         ELSE HashScalar(<<>>),
                   r1 |-> r1.scalar, r2 |-> r2.scalar]]

\* (msg *ServerMessage) NetEncode: the request, the tags, every proof and
\* a copy of indexes and signatures
ServerMessageNetEncode(m) ==
    LET request == ClientMessageNetEncode(m.request)
        tags == NetEncodeArray(m.tags, "P")
        proofs == [k \in 1 .. Len(m.proofs) |-> ServerProofNetEncode(m.proofs[k])]
    IN [err |-> FirstErr(<<request.err, tags.err>>
                             \o [k \in 1 .. Len(proofs) |-> proofs[k].err]),
        Request |-> request, Tags |-> tags.array, Proofs |-> proofs,
        Indexes |-> m.indexes,
        Sigs |-> [k \in 1 .. Len(m.sigs) |->
                     [Sig |-> m.sigs[k].sig, Index |-> m.sigs[k].index]]]

\* (netmsg *NetServerMessage) NetDecode
NetServerMessageDecode(n) ==
    LET request == NetClientMessageDecode(n.Request)
        tags == NetDecodeArray(n.Tags, "P")
        proofs == [k \in 1 .. Len(n.Proofs) |-> NetServerProofDecode(n.Proofs[k])]
    IN [err |-> FirstErr(<<request.err, tags.err>>
                             \o [k \in 1 .. Len(proofs) |-> proofs[k].err]),
        msg |-> [request |-> request.request, tags |-> tags.array,
                 proofs |-> [k \in 1 .. Len(proofs) |-> proofs[k].proof],
                 indexes |-> n.Indexes,
                 sigs |-> [k \in 1 .. Len(n.Sigs) |->
                              [sig |-> n.Sigs[k].Sig, index |-> n.Sigs[k].Index]]]]

\* A server message is sent to the next server: it is encoded and what
\* arrives is decoded.
NetRoundTrip(m) ==
    LET net == ServerMessageNetEncode(m)
    IN IF net.err # "nil" THEN [err |-> net.err, msg |-> NoMsg]
       ELSE NetServerMessageDecode(net)

\* C32: every server message of the pipeline, of 0 to n hops, each with a
\* standard proof or a misbehaviour proof, is encoded and decoded without
\* error into a message equal to the original.
C32_NetRoundTrip ==
    (phase = "pipeline" /\ err \in {"none", "nil"})
        => NetRoundTrip(msg) = [err |-> "nil", msg |-> msg]

\* ------------------------------------------------ what a call leaves alone
\* C33: a ServerProtocol call never changes the request the message
\* carries, and a call that returns an error leaves tags, proofs, indexes
\* and sigs as they were before the call.
C33_ErrorLeavesMessage ==
    [][Called => /\ msg'.request = msg.request
                 /\ (err' # "nil" => msg' = msg)]_vars

\* A call was refused on a message that earlier calls had extended.
C33_Witness ==
    /\ phase = "pipeline"
    /\ err = "error"
    /\ Len(msg.tags) > 0
    /\ Len(aux.calls) > Len(msg.tags)

\* ------------------------------------------------- who changes a secret
\* Rounds, requests, commitments and challenges of one set of servers: a
\* challenge is made while no request is in flight.
SecretNext ==
    \/ IndexRequest
    \/ SomeRoundStep
    \/ SomeNewRound
    \/ SomePublishRound
    \/ Finalize
    \/ RoundReset
    \/ SomeCoGenerate
    \/ CoReset
    \/ SomeChInit
    \/ (phase = "idle" /\ SomeChCall)
    \/ ChReset

SecretSpec == Init /\ [][SecretNext]_vars

\* C34: a call of ServerProtocol, GenerateCommitment or
\* CheckUpdateChallenge leaves the round secret, the private key and the
\* index of every server as they were; the secret changes in
\* GenerateNewRoundSecret only.
C34_OnlyNewRoundChangesSecret ==
    [][(Called \/ ch' # ch) =>
           \A j \in 0 .. (MaxServers - 1) :
               j < NumServers => ServerOf(j)' = ServerOf(j)]_vars

\* A server replaced its round secret, and ServerProtocol was called after.
C34_Witness ==
    /\ \E j \in 0 .. (NumServers - 1) : ServerOf(j).r # RoundSecret(j)
    /\ phase = "pipeline"
    /\ Len(aux.calls) > 0

\* --------------------------------------------- a challenge of one's own
\* Member i builds its request on a challenge value cs it chose itself:
\* no server made or signed it, GenerateProofResponses finds no signature
\* to verify and derives c and r from cs.
LoneRequest(i, z, cs, derive) ==
    /\ phase = "idle"
    /\ cl = NoCl
    /\ ch = NoCh
    /\ LET client == CreateClient(i)
           req == IF \A j \in DOMAIN derive : derive[j] = "SetBytes"
                  THEN CreateRequest(client, context, z)
                  ELSE RequestFromSecrets(client, context, z, Secrets(context, z, derive))
           com == GenerateProofCommitments(client, context, req.T0, req.s,
                                           Vrand(z, 2 * Len(context.H)),
                                           Wrand(z, Len(context.H)))
           own == [cs |-> cs, Sigs |-> <<>>]
           res == GenerateProofResponses(client, context, req.s, own, com.v, com.w)
       IN /\ res.err = "nil"
          /\ At(res.c, i) # 0
          /\ msg' = InitializeServerMessage(
                        AssembleMessage(context, req.S, req.T0, own, com.t, res.c, res.r))
    /\ aux' = [NoAux EXCEPT !.client = i, !.z = z, !.cs = cs, !.derive = derive,
                            !.kind = "alone"]
    /\ phase' = "pipeline"
    /\ err' = "none"
    /\ Tf' = Nil
    /\ UNCHANGED <<context, fork, first, cl, round, ch, setup>>

SomeLoneRequest ==
    \E i \in 0 .. (NumClients - 1), z \in 1 .. MaxZ, cs \in 1 .. MaxZ,
       derive \in Derivations(NumServers) : LoneRequest(i, z, cs, derive)

LoneNext ==
    \/ IndexRequest
    \/ SomeLoneRequest
    \/ SomeServerStep
    \/ Finalize
    \/ Reset

LoneSpec == Init /\ [][LoneNext]_vars

\* C35: a request whose proof uses a challenge value the client chose
\* alone, signed by no server, is refused by every server: no hop is ever
\* appended to it.
C35_LoneChallengeRefused ==
    (phase = "pipeline" /\ aux.kind = "alone") =>
        /\ Len(msg.tags) = 0
        /\ err \in {"none", "error"}

\* ------------------------------------------- a server that departs from step 2
\* Server j verifies the message as ServerProtocol does and appends such a
\* hop, signed with its own key.
RogueHop(j, a, how) ==
    /\ phase = "pipeline"
    /\ err \in {"none", "nil"}
    /\ Len(aux.calls) <= NumServers
    /\ ServerProtocol(CreateServer(j), context, msg, ServerNonce(a)).err = "nil"
    /\ how = "frame" => ~Misbehaving(CreateServer(j), msg)
    /\ LET rogue == RogueAppend(CreateServer(j), context, msg, ServerNonce(a), how)
       IN /\ how = "tag" => Last(rogue.tags) # PointNull
          /\ msg' = rogue
    /\ err' = "nil"
    /\ aux' = [aux EXCEPT !.calls = Append(@, j)]
    /\ UNCHANGED <<context, Tf, phase, fork, first, cl, round, ch, setup>>

SomeRogueHop ==
    \E j \in 0 .. (NumServers - 1), a \in 0 .. MaxSeed, how \in {"tag", "frame"} :
        RogueHop(j, a, how)

RogueNext ==
    \/ IndexRequest
    \/ SomeRogueHop
    \/ SomeServerStep
    \/ Finalize
    \/ Reset

RogueSpec == Init /\ [][RogueNext]_vars

\* Hop h of the message in flight was accepted: a later server appended
\* its hop after verifying the message, or the client's finalization
\* returned the final tag.
HopAccepted(h) ==
    \/ h < Len(msg.tags)
    \/ phase = "final" /\ err = "nil"

\* C36: a hop with a misbehaviour proof, r2 absent, that later servers or
\* the client's finalization accepted has the identity as its tag.
C36_MisbehaviourTagIsIdentity ==
    \A h \in 1 .. Len(msg.proofs) :
        (msg.proofs[h].r2 = Nil /\ HopAccepted(h)) => msg.tags[h] = PointNull

\* C37: a hop with a misbehaviour proof by server j that was accepted
\* belongs to a request whose commitment chain is inconsistent at j:
\* S[j+2] differs from S[j+1]^s for the s derived from Z^(y_j).
C37_MisbehaviourOnlyWhenInconsistent ==
    \A h \in 1 .. Len(msg.proofs) :
        (msg.proofs[h].r2 = Nil /\ HopAccepted(h)) =>
            Misbehaving(CreateServer(msg.indexes[h]), msg)

=============================================================================
